---- MODULE Spec2Model ----
(***************************************************************************)
(* Model of the grid-indexing / segmentation / exclusion-alignment /       *)
(* inspection pipeline of src/indexing_ui.py (MainWindow, ImageWidget)     *)
(* and src/segmentation.py.                                                *)
(*                                                                         *)
(* Conventions                                                             *)
(*   - a rectangle is a record [x, y, w, h]; Python's None / an invalid    *)
(*     QRect is NoRect (QRect.__bool__ is isValid(): w > 0 and h > 0);     *)
(*   - a path is a string, "" standing for None (both are falsy);          *)
(*   - a raster mask is the set of its non-zero pixels <<x, y>>, wrapped   *)
(*     in [has, px, w, h] (w x h the raster's size) where has = FALSE      *)
(*     stands for "no QPixmap stored";                                     *)
(*   - a float centroid is the exact rational (sx/n, sy/n), kept as        *)
(*     [sx, sy, n];                                                        *)
(*   - a dict is a set of [k, v] records with unique keys.                 *)
(***************************************************************************)
EXTENDS Integers, Sequences, FiniteSets, TLC

VARIABLES
    current_image_path,       \* MainWindow._current_image_path
    reference_image_path,     \* MainWindow._reference_image_path
    reference_image_size,     \* MainWindow._reference_image_size
    fixed_img_rect,           \* ImageWidget.fixed_img_rect (base unit)
    grid_rects,               \* ImageWidget.grid_rects: seq of [r, idx]
    params,                   \* the eight grid spin boxes
    drawing_enabled,          \* ImageWidget.drawing_enabled
    exclusion_mode,           \* ImageWidget.exclusion_mode
    drawing_enabled_before_exclusion,
    exclusions,               \* MainWindow.exclusions
    excl_index,               \* MainWindow.excl_index spin box value
    exclusion_edit_active,    \* MainWindow._exclusion_edit_active
    exclusion_edit_shape,     \* ImageWidget.exclusion_edit_mode/_shape ("" = off)
    exclusion_edit_timer,     \* MainWindow._exclusion_edit_timer is pending
    exclusion_ref_centroids,  \* MainWindow._exclusion_ref_centroids
    thumb_list,               \* MainWindow.thumb_list items: [text, seg, def]
    image_states,             \* MainWindow._image_states
    inspection_mode,          \* ImageWidget.inspection_mode
    inspection_results,       \* ImageWidget.inspection_results
    run_insp_btn,             \* run_insp_btn.isChecked()
    edit_btn,                 \* edit_btn.isChecked()
    apply_btn_enabled,        \* apply_btn.isEnabled()
    defect_min_area,          \* defect_min_area spin box value
    defect_mask_erode,        \* defect_mask_erode spin box value
    defect_autoupdate_timer,  \* pending timeouts of MainWindow._defect_autoupdate_timer
    gauss_spin,               \* gauss_spin spin box value
    seg_debounce_timer,       \* pending timeouts of MainWindow._seg_debounce_timer, -1 = no such attribute yet
    seg_debounce_superseded,  \* pending timeouts of the timers a later center_on_cell replaced
    current_row,              \* thumb_list.currentRow(), -1 = none
    overlay_mode,             \* overlay_mode.currentText()
    defect_method,            \* defect_method.currentText()
    crashed,                  \* an exception left a Qt slot: the process is gone
    ev,                       \* history: what the last handler did
    steps,                    \* handlers run so far (the exploration budget)
    fn_in,                    \* the arguments of a function applied on its own
    fn_out                    \* and its result

vars == <<current_image_path, reference_image_path, reference_image_size,
          fixed_img_rect, grid_rects, params, drawing_enabled, exclusion_mode,
          drawing_enabled_before_exclusion, exclusions, excl_index,
          exclusion_edit_active, exclusion_edit_shape, exclusion_edit_timer,
          exclusion_ref_centroids, thumb_list, image_states, inspection_mode,
          inspection_results, run_insp_btn, edit_btn, apply_btn_enabled,
          defect_min_area, defect_mask_erode,
          defect_autoupdate_timer, gauss_spin, seg_debounce_timer,
          seg_debounce_superseded, current_row, overlay_mode, defect_method,
          crashed, ev, steps,
          fn_in, fn_out>>

(***************************************************************************)
(* Basic values                                                            *)
(***************************************************************************)
Rect(x, y, w, h) == [x |-> x, y |-> y, w |-> w, h |-> h]

NoRect == Rect(0, 0, 0, 0)

\* bool(QRect): a QRect is truthy iff it is valid
RectTruthy(r) == r.w > 0 /\ r.h > 0

NoMask == [has |-> FALSE, px |-> {}, w |-> 0, h |-> 0]

Mask(px, w, h) == [has |-> TRUE, px |-> px, w |-> w, h |-> h]

Min2(a, b) == IF a <= b THEN a ELSE b

Max2(a, b) == IF a >= b THEN a ELSE b

Range(n) == 0 .. (n - 1)

\* dict helpers: a dict is a set of [k, v] with unique keys
Keys(d) == {e.k : e \in d}

Get(d, k) == (CHOOSE e \in d : e.k = k).v

Put(d, k, v) == {e \in d : e.k # k} \cup {[k |-> k, v |-> v]}

(***************************************************************************)
(* GridModel: MainWindow.update_grid_preview, the four nested loops        *)
(***************************************************************************)
GridParams(ux, uy, bx, by, sux, suy, sbx, sby) ==
    [units_x |-> ux, units_y |-> uy, blocks_x |-> bx, blocks_y |-> by,
     unit_space_x |-> sux, unit_space_y |-> suy,
     block_space_x |-> sbx, block_space_y |-> sby]

\* faulty variant (sensitivity of C1): units packed without the block pitch
UnitXPacked(r, p, bxi, uxi) ==
    r.x + (bxi * p.units_x + uxi) * (r.w + p.unit_space_x)

\* faulty variant (sensitivity of C31): the block spacing precedes every block,
\* the first included
UnitXSpaceBeforeBlock(r, p, bxi, uxi) ==
    r.x + bxi * (p.units_x * r.w + (p.units_x - 1) * p.unit_space_x) + (bxi + 1) * p.block_space_x
        + uxi * (r.w + p.unit_space_x)

UnitX(r, p, bxi, uxi) ==
    r.x + bxi * (p.units_x * r.w + (p.units_x - 1) * p.unit_space_x + p.block_space_x)
        + uxi * (r.w + p.unit_space_x)

UnitY(r, p, byi, uyi) ==
    r.y + byi * (p.units_y * r.h + (p.units_y - 1) * p.unit_space_y + p.block_space_y)
        + uyi * (r.h + p.unit_space_y)

\* faulty variant (sensitivity of C3): the new unit is put in front
AppendUnitInFront(st, r, p, byi, uyi, bxi, uxi) ==
    [grid |-> <<[r |-> Rect(r.x + bxi * (p.units_x * r.w + (p.units_x - 1) * p.unit_space_x
                                          + p.block_space_x) + uxi * (r.w + p.unit_space_x),
                            r.y + byi * (p.units_y * r.h + (p.units_y - 1) * p.unit_space_y
                                          + p.block_space_y) + uyi * (r.h + p.unit_space_y),
                            r.w, r.h),
                 idx |-> st.idx]>> \o st.grid,
     idx |-> st.idx + 1]

\* grid.append(((x, y, unit_w, unit_h), idx)); idx += 1
AppendUnit(st, r, p, byi, uyi, bxi, uxi) ==
    [grid |-> Append(st.grid,
                     [r |-> Rect(UnitX(r, p, bxi, uxi), UnitY(r, p, byi, uyi), r.w, r.h),
                      idx |-> st.idx]),
     idx |-> st.idx + 1]

RECURSIVE UxLoop(_, _, _, _, _, _, _)
UxLoop(st, r, p, byi, uyi, bxi, uxi) ==
    IF uxi >= p.units_x THEN st
    ELSE UxLoop(AppendUnit(st, r, p, byi, uyi, bxi, uxi), r, p, byi, uyi, bxi, uxi + 1)

RECURSIVE BxLoop(_, _, _, _, _, _)
BxLoop(st, r, p, byi, uyi, bxi) ==
    IF bxi >= p.blocks_x THEN st
    ELSE BxLoop(UxLoop(st, r, p, byi, uyi, bxi, 0), r, p, byi, uyi, bxi + 1)

\* faulty variant (sensitivity of C2): exactly one unit row per block row
UyLoopOneRow(st, r, p, byi, uyi) == BxLoop(st, r, p, byi, 0, 0)

RECURSIVE UyLoop(_, _, _, _, _)
UyLoop(st, r, p, byi, uyi) ==
    IF uyi >= p.units_y THEN st
    ELSE UyLoop(BxLoop(st, r, p, byi, uyi, 0), r, p, byi, uyi + 1)

RECURSIVE ByLoop(_, _, _, _)
ByLoop(st, r, p, byi) ==
    IF byi >= p.blocks_y THEN st
    ELSE ByLoop(UyLoop(st, r, p, byi, 0), r, p, byi + 1)

GenerateGrid(r, p) == ByLoop([grid |-> <<>>, idx |-> 0], r, p, 0).grid

(***************************************************************************)
(* Image files.  The raster of a file is fixed; what OpenCV's threshold /  *)
(* morphology reports as surface on a crop, and what its median-residual   *)
(* threshold reports as anomalous, is given per pixel by the file.         *)
(***************************************************************************)
\* files that decode; "X" exists but does not decode
Readable == {"A", "B", "D"}

ImagePaths == Readable \cup {"X"}

\* a plate photograph large enough for real unit sizes; only its size is used
GridImage == "S"

AllFiles == ImagePaths \cup {GridImage}

\* (width, height) as cv2.imread / QImage report it
ImageSize(p) ==
    CASE p = "D" -> <<4, 2>>
      [] p = GridImage -> <<640, 480>>
      [] OTHER -> <<6, 2>>

Surface(p) ==
    CASE p = "A" -> {<<0, 0>>, <<1, 0>>, <<0, 1>>, <<1, 1>>, <<3, 0>>, <<3, 1>>}
      [] p = "B" -> {<<1, 0>>, <<2, 0>>, <<1, 1>>, <<2, 1>>, <<5, 0>>}
      [] OTHER   -> {<<0, 0>>}

Anomalous(p) ==
    CASE p = "A" -> {<<0, 0>>, <<1, 0>>, <<0, 1>>, <<1, 1>>, <<3, 0>>}
      [] p = "B" -> {<<1, 0>>}
      [] OTHER   -> {}

\* the pixels cv2.Canny marks as edges (the "canny" method)
Edges(p) ==
    CASE p = "A" -> {<<1, 0>>, <<1, 1>>, <<3, 0>>}
      [] p = "B" -> {<<2, 0>>}
      [] OTHER   -> {}

InImage(p, x, y) ==
    /\ 0 <= x /\ x < ImageSize(p)[1]
    /\ 0 <= y /\ y < ImageSize(p)[2]

UnitPixels(w, h) == {<<x, y>> : x \in Range(w), y \in Range(h)}

(***************************************************************************)
(* Connected components and centroids                                      *)
(***************************************************************************)
Abs(a) == IF a < 0 THEN -a ELSE a

\* k = 8: 8-connectivity, k = 4: 4-connectivity
Adjacent(p, q, k) ==
    /\ p # q
    /\ Abs(p[1] - q[1]) <= 1
    /\ Abs(p[2] - q[2]) <= 1
    /\ (k = 4 => (p[1] = q[1] \/ p[2] = q[2]))

RECURSIVE Reach(_, _, _)
Reach(S, C, k) ==
    LET N == {q \in S \ C : \E p \in C : Adjacent(p, q, k)}
    IN  IF N = {} THEN C ELSE Reach(S, C \cup N, k)

Components(S, k) == {Reach(S, {p}, k) : p \in S}

\* raster-scan order: row by row, left to right
ScanBefore(p, q) == p[2] < q[2] \/ (p[2] = q[2] /\ p[1] <= q[1])

FirstPixel(c) == CHOOSE p \in c : \A q \in c : ScanBefore(p, q)

\* stats[1:, CC_STAT_AREA]; best = 1 + argmax(areas): the first largest label,
\* labels being numbered in raster-scan order of their first pixel
LargestComponent(S) ==
    LET Best(cs) ==
            CHOOSE c \in cs :
                \A d \in cs :
                    \/ Cardinality(c) > Cardinality(d)
                    \/ /\ Cardinality(c) = Cardinality(d)
                       /\ ScanBefore(FirstPixel(c), FirstPixel(d))
    IN  IF S = {} THEN {} ELSE Best(Components(S, 8))

RECURSIVE SumCoord(_, _)
SumCoord(S, i) ==
    IF S = {} THEN 0
    ELSE LET p == CHOOSE q \in S : TRUE IN p[i] + SumCoord(S \ {p}, i)

\* None is the centroid with n = 0
NoCentroid == [sx |-> 0, sy |-> 0, n |-> 0]

\* _largest_component_centroid: (xs.mean(), ys.mean()) of the largest component
LargestComponentCentroid(S) ==
    LET Mean(c) == [sx |-> SumCoord(c, 1), sy |-> SumCoord(c, 2), n |-> Cardinality(c)]
    IN  IF S = {} THEN NoCentroid ELSE Mean(LargestComponent(S))

\* Python's round(): to nearest, halves to even; num/den with den > 0
RoundHalfEven(num, den) ==
    LET q == num \div den
        r == num - q * den
    IN  IF 2 * r < den THEN q
        ELSE IF 2 * r > den THEN q + 1
        ELSE IF q % 2 = 0 THEN q ELSE q + 1

\* dx = int(round(c1[0] - c0[0])), dy = int(round(c1[1] - c0[1]))
ShiftOf(c0, c1) ==
    IF c0.n = 0 \/ c1.n = 0 THEN <<0, 0>>
    ELSE <<RoundHalfEven(c1.sx * c0.n - c0.sx * c1.n, c1.n * c0.n),
           RoundHalfEven(c1.sy * c0.n - c0.sy * c1.n, c1.n * c0.n)>>

(***************************************************************************)
(* Segmenter: segmentation.fill_internal_holes, segmentation.segment_cell  *)
(***************************************************************************)
OnBorder(p, w, h) == p[1] = 0 \/ p[2] = 0 \/ p[1] = w - 1 \/ p[2] = h - 1

\* faulty variant (sensitivity of C23): the flood starts at the corner (0,0) only
FillFromCorner(m, w, h) ==
    LET bg == UnitPixels(w, h) \ m
    IN  m \cup (bg \ Reach(bg, bg \cap {<<0, 0>>}, 4))

\* faulty variant (sensitivity of C24): the holes are returned without the mask
FillHolesOnly(m, w, h) ==
    LET bg == UnitPixels(w, h) \ m
    IN  bg \ Reach(bg, {p \in bg : p[1] = 0 \/ p[2] = 0 \/ p[1] = w - 1 \/ p[2] = h - 1}, 4)

\* flood-fill the background from every background border pixel (cv2.floodFill,
\* 4-connected); what stays unreached is a hole and becomes foreground
FillInternalHoles(m, w, h) ==
    LET bg     == UnitPixels(w, h) \ m
        seeds  == {p \in bg : OnBorder(p, w, h)}
        flood  == Reach(bg, seeds, 4)
    IN  m \cup (bg \ flood)

\* faulty variant (sensitivity of C25): the mask is binarised to 0/1, the factor
\* 255 is left out
FillInternalHolesUnscaled(img, w, h) ==
    LET filled == FillInternalHoles({p \in UnitPixels(w, h) : img[p] > 0}, w, h)
    IN  [p \in UnitPixels(w, h) |-> IF p \in filled THEN 1 ELSE 0]

\* fill_internal_holes on a raster of gray values: m = (mask > 0) * 255, and the
\* result is 255 on the filled mask, 0 elsewhere
FillInternalHolesOf(img, w, h) ==
    LET filled == FillInternalHoles({p \in UnitPixels(w, h) : img[p] > 0}, w, h)
    IN  [p \in UnitPixels(w, h) |-> IF p \in filled THEN 255 ELSE 0]

\* a raster as the table of its values, every pixel computed once
Raster(f) == f @@ <<>>

\* cv2.GaussianBlur with a 3x3 kernel and sigma 0: the weights (1, 2, 1)/4 in
\* each direction, rounded to the nearest gray value; border names how indices
\* beyond the raster are mapped back ("reflect101" by default, "replicate" in
\* adaptiveThreshold)
GaussianBlur3(img, w, h, border) ==
    LET At(i, n) ==
            IF n = 1 THEN 0
            ELSE IF i < 0 THEN (IF border = "replicate" THEN 0 ELSE -i)
            ELSE IF i >= n THEN (IF border = "replicate" THEN n - 1 ELSE 2 * n - 2 - i)
            ELSE i
        Row(x, y) == img[<<At(x - 1, w), y>>] + 2 * img[<<x, y>>] + img[<<At(x + 1, w), y>>]
        Sum(p) == Row(p[1], At(p[2] - 1, h)) + 2 * Row(p[1], p[2]) + Row(p[1], At(p[2] + 1, h))
    IN  Raster([p \in UnitPixels(w, h) |-> (Sum(p) + 8) \div 16])

\* the blur step of segment_cell: no blur for 0, an even size is made odd; of
\* the odd sizes 1 (the identity) and 3 are modelled
BlurStep(img, w, h, gaussian_blur) ==
    LET k == IF gaussian_blur % 2 = 1 THEN gaussian_blur ELSE gaussian_blur + 1
    IN  IF gaussian_blur <= 0 \/ k = 1 THEN img ELSE GaussianBlur3(img, w, h, "reflect101")

\* the thresholds Otsu's method can return (getThreshVal_Otsu_8u): the gray
\* levels i that maximise q1 * q2 * (mu1 - mu2)^2, the between-class variance of
\* the pixels <= i and the pixels > i; 0 when no level splits the pixels. The
\* code keeps the first i whose variance is greater than all before, in double
\* arithmetic: levels whose variances are equal as exact fractions can come out
\* either way, so all of them are returned.
OtsuThresholds(img, w, h) ==
    LET px      == UnitPixels(w, h)
        levels  == {img[p] : p \in px}
        RECURSIVE SumOf(_)
        SumOf(S) == IF S = {} THEN 0
                    ELSE LET p == CHOOSE q \in S : TRUE IN img[p] + SumOf(S \ {p})
        Low(i)  == {p \in px : img[p] <= i}
        N1(i)   == Cardinality(Low(i))
        N2(i)   == Cardinality(px) - N1(i)
        splits  == {i \in levels : N1(i) > 0 /\ N2(i) > 0}
        \* the variance of level i is Num(i) / Den(i), up to the factor 1/N^2
        Diff(i) == SumOf(Low(i)) * N2(i) - SumOf(px \ Low(i)) * N1(i)
        Num(i)  == Diff(i) * Diff(i)
        Den(i)  == N1(i) * N2(i)
        Less(i, j) ==
            \/ Num(i) \div Den(i) < Num(j) \div Den(j)
            \/ /\ Num(i) \div Den(i) = Num(j) \div Den(j)
               /\ (Num(i) % Den(i)) * Den(j) < (Num(j) % Den(j)) * Den(i)
        best    == {i \in splits : Num(i) > 0 /\ \A j \in splits : ~Less(i, j)}
    IN  IF best = {} THEN {0} ELSE best

\* faulty variant (sensitivity of C26): THRESH_BINARY, 255 above the threshold
ThresholdBinary(img, w, h, t) ==
    Raster([p \in UnitPixels(w, h) |-> IF img[p] > t THEN 255 ELSE 0])

\* cv2.threshold(THRESH_BINARY_INV): 0 above the threshold, 255 elsewhere
ThresholdInv(img, w, h, t) ==
    Raster([p \in UnitPixels(w, h) |-> IF img[p] > t THEN 0 ELSE 255])

\* cv2.adaptiveThreshold(ADAPTIVE_THRESH_GAUSSIAN_C, THRESH_BINARY_INV) with
\* block size 3: 255 where the pixel is at most the local mean less C
AdaptiveThresholdInv(img, w, h, adapt_C) ==
    LET mean == GaussianBlur3(img, w, h, "replicate")
    IN  Raster([p \in UnitPixels(w, h) |-> IF img[p] - mean[p] <= -adapt_C THEN 255 ELSE 0])

\* cv2.dilate / cv2.erode with the 3x3 ellipse (a cross); pixels beyond the
\* raster do not count
DilateCross(img, w, h) ==
    Raster([p \in UnitPixels(w, h) |->
               IF \E q \in UnitPixels(w, h) : (q = p \/ Adjacent(p, q, 4)) /\ img[q] = 255
               THEN 255 ELSE img[p]])

ErodeCross(img, w, h) ==
    Raster([p \in UnitPixels(w, h) |->
               IF \E q \in UnitPixels(w, h) : (q = p \/ Adjacent(p, q, 4)) /\ img[q] = 0
               THEN 0 ELSE img[p]])

\* the morphology step of segment_cell: close, then open; kernel sizes 1 (a
\* single pixel, the identity) and 3 are modelled
MorphStep(img, w, h, morph_kernel) ==
    IF morph_kernel <= 1 THEN img
    ELSE DilateCross(ErodeCross(ErodeCross(DilateCross(img, w, h), w, h), w, h), w, h)

\* segment_cell with the threshold t that Otsu's method returned
SegmentCellOf(gray, w, h, method, adapt_C, gaussian_blur, morph_kernel, t) ==
    LET img  == BlurStep(gray, w, h, gaussian_blur)
        mask == IF method = "adaptive" THEN AdaptiveThresholdInv(img, w, h, adapt_C)
                ELSE ThresholdInv(img, w, h, t)
    IN  FillInternalHolesOf(MorphStep(mask, w, h, morph_kernel), w, h)

\* the crop of QImage.copy(x, y, w, h): pixels beyond the image are 0 (black),
\* which inverse-binary thresholding reports as foreground
CropSurface(p, r) ==
    {q \in UnitPixels(r.w, r.h) :
        \/ ~InImage(p, r.x + q[1], r.y + q[2])
        \/ <<r.x + q[1], r.y + q[2]>> \in Surface(p)}

SegmentCell(p, r) == FillInternalHoles(CropSurface(p, r), r.w, r.h)

\* a crop with no pixels cannot be converted (qimage_to_gray_array raises)
Degenerate(r) == r.w <= 0 \/ r.h <= 0

(***************************************************************************)
(* ExclusionAligner: subtraction of the exclusions, shifted by (dx, dy)    *)
(***************************************************************************)
RectExcl(x, y, w, h) == [shape |-> "rect", x |-> x, y |-> y, w |-> w, h |-> h]

CircleExcl(cx, cy, r) == [shape |-> "circle", cx |-> cx, cy |-> cy, r |-> r]

\* faulty variant (sensitivity of C5): the rectangle is clipped but not translated
ExclusionPixelsUnshifted(excl, dx, dy, w, h) ==
    {q \in UnitPixels(w, h) :
        /\ excl.shape = "rect"
        /\ excl.x <= q[1] /\ q[1] < excl.x + excl.w
        /\ excl.y <= q[2] /\ q[2] < excl.y + excl.h}

\* the pixels one exclusion zeroes in a w x h mask
ExclusionPixels(excl, dx, dy, w, h) ==
    IF excl.shape = "rect"
    THEN LET ex == excl.x + dx
             ey == excl.y + dy
             x0 == Max2(0, ex)
             y0 == Max2(0, ey)
             x1 == Min2(w, ex + excl.w)
             y1 == Min2(h, ey + excl.h)
         IN  IF x1 > x0 /\ y1 > y0
             THEN {q \in UnitPixels(w, h) : x0 <= q[1] /\ q[1] < x1 /\ y0 <= q[2] /\ q[2] < y1}
             ELSE {}
    ELSE LET cx == excl.cx + dx
             cy == excl.cy + dy
         IN  IF excl.r > 0
             THEN {q \in UnitPixels(w, h) :
                     (q[1] - cx) * (q[1] - cx) + (q[2] - cy) * (q[2] - cy) <= excl.r * excl.r}
             ELSE {}

RECURSIVE ApplyExclusions(_, _, _, _, _, _)
ApplyExclusions(m, excls, dx, dy, w, h) ==
    IF excls = <<>> THEN m
    ELSE ApplyExclusions(m \ ExclusionPixels(Head(excls), dx, dy, w, h),
                         Tail(excls), dx, dy, w, h)

\* the mask run_segmentation_all stores for a unit: the exclusions zeroed, then
\* QImage(bytes, w_m, h_m, w_m, Format_Grayscale8) read row by row
StoredMaskOf(mask, w, h, excls, dx, dy) ==
    LET gone  == UNION {ExclusionPixels(excls[i], dx, dy, w, h) : i \in DOMAIN excls}
        bytes == [i \in 0 .. (w * h - 1) |->
                     IF <<i % w, i \div w>> \in gone THEN 0 ELSE mask[<<i % w, i \div w>>]]
    IN  [w |-> w, h |-> h, px |-> [p \in UnitPixels(w, h) |-> bytes[p[2] * w + p[1]]]]

(***************************************************************************)
(* The application state as one record, so that a handler is a function    *)
(* from state to state and handlers compose the way the calls nest.        *)
(***************************************************************************)
State ==
    [current_image_path |-> current_image_path,
     reference_image_path |-> reference_image_path,
     reference_image_size |-> reference_image_size,
     fixed_img_rect |-> fixed_img_rect,
     grid_rects |-> grid_rects,
     params |-> params,
     drawing_enabled |-> drawing_enabled,
     exclusion_mode |-> exclusion_mode,
     drawing_enabled_before_exclusion |-> drawing_enabled_before_exclusion,
     exclusions |-> exclusions,
     excl_index |-> excl_index,
     exclusion_edit_active |-> exclusion_edit_active,
     exclusion_edit_shape |-> exclusion_edit_shape,
     exclusion_edit_timer |-> exclusion_edit_timer,
     exclusion_ref_centroids |-> exclusion_ref_centroids,
     thumb_list |-> thumb_list,
     image_states |-> image_states,
     inspection_mode |-> inspection_mode,
     inspection_results |-> inspection_results,
     run_insp_btn |-> run_insp_btn,
     edit_btn |-> edit_btn,
     apply_btn_enabled |-> apply_btn_enabled,
     defect_min_area |-> defect_min_area,
     defect_mask_erode |-> defect_mask_erode,
     defect_autoupdate_timer |-> defect_autoupdate_timer,
     gauss_spin |-> gauss_spin,
     seg_debounce_timer |-> seg_debounce_timer,
     seg_debounce_superseded |-> seg_debounce_superseded,
     current_row |-> current_row,
     overlay_mode |-> overlay_mode,
     defect_method |-> defect_method,
     crashed |-> crashed,
     ev |-> ev]

Commit(t) ==
    /\ current_image_path' = t.current_image_path
    /\ reference_image_path' = t.reference_image_path
    /\ reference_image_size' = t.reference_image_size
    /\ fixed_img_rect' = t.fixed_img_rect
    /\ grid_rects' = t.grid_rects
    /\ params' = t.params
    /\ drawing_enabled' = t.drawing_enabled
    /\ exclusion_mode' = t.exclusion_mode
    /\ drawing_enabled_before_exclusion' = t.drawing_enabled_before_exclusion
    /\ exclusions' = t.exclusions
    /\ excl_index' = t.excl_index
    /\ exclusion_edit_active' = t.exclusion_edit_active
    /\ exclusion_edit_shape' = t.exclusion_edit_shape
    /\ exclusion_edit_timer' = t.exclusion_edit_timer
    /\ exclusion_ref_centroids' = t.exclusion_ref_centroids
    /\ thumb_list' = t.thumb_list
    /\ image_states' = t.image_states
    /\ inspection_mode' = t.inspection_mode
    /\ inspection_results' = t.inspection_results
    /\ run_insp_btn' = t.run_insp_btn
    /\ edit_btn' = t.edit_btn
    /\ apply_btn_enabled' = t.apply_btn_enabled
    /\ defect_min_area' = t.defect_min_area
    /\ defect_mask_erode' = t.defect_mask_erode
    /\ defect_autoupdate_timer' = t.defect_autoupdate_timer
    /\ gauss_spin' = t.gauss_spin
    /\ seg_debounce_timer' = t.seg_debounce_timer
    /\ seg_debounce_superseded' = t.seg_debounce_superseded
    /\ current_row' = t.current_row
    /\ overlay_mode' = t.overlay_mode
    /\ defect_method' = t.defect_method
    /\ crashed' = (t.crashed \/ t.ev.exc)
    /\ ev' = t.ev
    /\ steps' = steps + 1
    /\ UNCHANGED <<fn_in, fn_out>>

\* ev: the handler that ran last and what it did
\*   regen  update_grid_preview rebuilt the grid
\*   seg    run_segmentation_all: "none" | "skipped" | "done" | "aborted"
\*   segref the run treated the current image as the reference image
\*   units  per unit the run reached: its pre-exclusion mask, the reference
\*          centroid used (n = 0: none) and the shift applied
\*   insp   run_inspection: "none" | "refused" | "done"
\*   exc    an exception is propagating out of the handler
\*   arg    the handler's input
\*   had_centroids  the centroid map was non-empty when the handler started
Event(op, arg) ==
    [op |-> op, arg |-> arg, regen |-> FALSE, seg |-> "none", segref |-> FALSE,
     units |-> <<>>, insp |-> "none", exc |-> FALSE, had_centroids |-> FALSE]

Begin(s, op, arg) ==
    [s EXCEPT !.ev = [Event(op, arg) EXCEPT !.had_centroids = s.exclusion_ref_centroids # {}]]

NoState == [present |-> FALSE, seg |-> <<>>, def |-> <<>>, inspection |-> {}]

\* spin box defaults: src/indexing_ui.py 873, 875, 803
DefaultMinArea == 20

DefaultMaskErode == 6

DefaultGaussBlur == 3

InitState ==
    [current_image_path |-> "",
     reference_image_path |-> "",
     reference_image_size |-> <<>>,
     fixed_img_rect |-> NoRect,
     grid_rects |-> <<>>,
     params |-> GridParams(0, 0, 0, 0, 0, 0, 0, 0),
     drawing_enabled |-> TRUE,
     exclusion_mode |-> FALSE,
     drawing_enabled_before_exclusion |-> "None",   \* "None" | "True" | "False"
     exclusions |-> <<>>,
     excl_index |-> 0,
     exclusion_edit_active |-> FALSE,
     exclusion_edit_shape |-> "",
     exclusion_edit_timer |-> FALSE,
     exclusion_ref_centroids |-> {},
     thumb_list |-> <<>>,
     image_states |-> [p \in AllFiles |-> NoState],
     inspection_mode |-> FALSE,
     inspection_results |-> {},
     run_insp_btn |-> FALSE,
     edit_btn |-> FALSE,
     apply_btn_enabled |-> TRUE,
     defect_min_area |-> DefaultMinArea,
     defect_mask_erode |-> DefaultMaskErode,
     defect_autoupdate_timer |-> 0,
     gauss_spin |-> DefaultGaussBlur,
     seg_debounce_timer |-> -1,
     seg_debounce_superseded |-> 0,
     current_row |-> -1,
     overlay_mode |-> "Defect",
     defect_method |-> "threshold",
     crashed |-> FALSE,
     ev |-> Event("init", [none |-> TRUE])]

StartsAs(t) ==
    /\ current_image_path = t.current_image_path
    /\ reference_image_path = t.reference_image_path
    /\ reference_image_size = t.reference_image_size
    /\ fixed_img_rect = t.fixed_img_rect
    /\ grid_rects = t.grid_rects
    /\ params = t.params
    /\ drawing_enabled = t.drawing_enabled
    /\ exclusion_mode = t.exclusion_mode
    /\ drawing_enabled_before_exclusion = t.drawing_enabled_before_exclusion
    /\ exclusions = t.exclusions
    /\ excl_index = t.excl_index
    /\ exclusion_edit_active = t.exclusion_edit_active
    /\ exclusion_edit_shape = t.exclusion_edit_shape
    /\ exclusion_edit_timer = t.exclusion_edit_timer
    /\ exclusion_ref_centroids = t.exclusion_ref_centroids
    /\ thumb_list = t.thumb_list
    /\ image_states = t.image_states
    /\ inspection_mode = t.inspection_mode
    /\ inspection_results = t.inspection_results
    /\ run_insp_btn = t.run_insp_btn
    /\ edit_btn = t.edit_btn
    /\ apply_btn_enabled = t.apply_btn_enabled
    /\ defect_min_area = t.defect_min_area
    /\ defect_mask_erode = t.defect_mask_erode
    /\ defect_autoupdate_timer = t.defect_autoupdate_timer
    /\ gauss_spin = t.gauss_spin
    /\ seg_debounce_timer = t.seg_debounce_timer
    /\ seg_debounce_superseded = t.seg_debounce_superseded
    /\ current_row = t.current_row
    /\ overlay_mode = t.overlay_mode
    /\ defect_method = t.defect_method
    /\ crashed = t.crashed
    /\ ev = t.ev

NoCall == [kind |-> "none"]

Init == StartsAs(InitState) /\ steps = 0 /\ fn_in = NoCall /\ fn_out = NoCall

(***************************************************************************)
(* Thumbnails and the per-image cache                                      *)
(***************************************************************************)
ThumbItem(idx) == [text |-> idx, seg |-> NoMask, def |-> NoMask]

\* MainWindow.populate_thumbnails
PopulateThumbnails(s) ==
    IF s.grid_rects = <<>> \/ s.current_image_path = ""
    THEN [s EXCEPT !.thumb_list = <<>>, !.current_row = -1]
    ELSE [s EXCEPT !.thumb_list = [i \in 1 .. Len(s.grid_rects) |-> ThumbItem(s.grid_rects[i].idx)],
                   !.current_row = -1]

\* faulty variant (sensitivity of C9): the centroid map survives the regeneration
UpdateGridPreviewKeepCentroids(s) ==
    IF ~RectTruthy(s.fixed_img_rect) \/ s.current_image_path = ""
    THEN s
    ELSE PopulateThumbnails([s EXCEPT !.grid_rects = GenerateGrid(s.fixed_img_rect, s.params),
                                      !.ev.regen = TRUE])

\* MainWindow.update_grid_preview
UpdateGridPreview(s) ==
    IF ~RectTruthy(s.fixed_img_rect) \/ s.current_image_path = ""
    THEN s
    ELSE [PopulateThumbnails([s EXCEPT !.grid_rects = GenerateGrid(s.fixed_img_rect, s.params),
                                       !.ev.regen = TRUE])
             EXCEPT !.exclusion_ref_centroids = {}]

\* faulty variant (sensitivity of C12): nothing is written to the ImageState
SnapshotNothing(s) == s

\* MainWindow._snapshot_current_results
SnapshotCurrentResults(s) ==
    IF s.current_image_path = "" THEN s
    ELSE [s EXCEPT !.image_states[s.current_image_path] =
            [present |-> TRUE,
             seg |-> [i \in 1 .. Len(s.thumb_list) |-> s.thumb_list[i].seg],
             def |-> [i \in 1 .. Len(s.thumb_list) |-> s.thumb_list[i].def],
             inspection |-> s.inspection_results]]

\* MainWindow._restore_results_for_path
RestoreResultsForPath(s, path) ==
    LET st == s.image_states[path]
    IN  IF ~st.present THEN s
        ELSE [s EXCEPT
                !.thumb_list =
                    [i \in 1 .. Len(s.thumb_list) |->
                        [s.thumb_list[i] EXCEPT
                            !.seg = IF i <= Len(st.seg) /\ st.seg[i].has THEN st.seg[i] ELSE NoMask,
                            !.def = IF i <= Len(st.def) /\ st.def[i].has THEN st.def[i] ELSE NoMask]],
                !.inspection_results = st.inspection]

(***************************************************************************)
(* MainWindow.run_segmentation_all                                         *)
(***************************************************************************)
\* ref_seg_bins: the cached masks of the reference image, by position, or
\* None (has = FALSE) when the current image is the reference or nothing is cached
RefSegBins(s) ==
    LET ref == s.reference_image_path
        cur == s.current_image_path
    IN  IF ref # "" /\ cur # "" /\ ref # cur /\ ref \in DOMAIN s.image_states
           /\ s.image_states[ref].seg # <<>>
        THEN [has |-> TRUE,
              bins |-> {[k |-> i - 1, v |-> s.image_states[ref].seg[i].px] :
                          i \in {j \in 1 .. Len(s.image_states[ref].seg) :
                                    s.image_states[ref].seg[j].has}}]
        ELSE [has |-> FALSE, bins |-> {}]

\* faulty variant (sensitivity of C7): every loaded image counts as the reference
IsReferenceAnyImage(s) == s.current_image_path # ""

IsReference(s) ==
    /\ s.reference_image_path # ""
    /\ s.current_image_path # ""
    /\ s.reference_image_path = s.current_image_path

\* the reference centroid c0 of the unit at position i: the map first, the
\* cached reference mask second
ReferenceCentroid(s, bins, i) ==
    IF i \in Keys(s.exclusion_ref_centroids)
    THEN Get(s.exclusion_ref_centroids, i)
    ELSE IF bins.has /\ i \in Keys(bins.bins)
         THEN LargestComponentCentroid(Get(bins.bins, i))
         ELSE NoCentroid

\* one pass of the loop body for the unit at position i (0-based)
SegmentUnit(s, bins, isref, i) ==
    LET r == s.grid_rects[i + 1].r
        Store(s1, pre, c0, shift) ==
            [s1 EXCEPT !.thumb_list =
                          IF i < Len(s1.thumb_list)
                          THEN [@ EXCEPT ![i + 1].seg =
                                    Mask(ApplyExclusions(pre, s1.exclusions, shift[1], shift[2],
                                                         r.w, r.h), r.w, r.h)]
                          ELSE @,
                       !.ev.units =
                          Append(@, [pos |-> i, pre |-> pre, c0 |-> c0,
                                     dx |-> shift[1], dy |-> shift[2]])]
        Align(s1, pre, c0, c1) ==
            Store(s1, pre, c0, IF isref THEN <<0, 0>> ELSE ShiftOf(c0, c1))
        Record(pre, c1) ==
            IF isref
            THEN Align(IF c1.n > 0 THEN [s EXCEPT !.exclusion_ref_centroids = Put(@, i, c1)] ELSE s,
                       pre, NoCentroid, c1)
            ELSE Align(s, pre, ReferenceCentroid(s, bins, i), c1)
        Locate(pre) == Record(pre, LargestComponentCentroid(pre))
    IN  Locate(SegmentCell(s.current_image_path, r))

RECURSIVE SegLoop(_, _, _, _)
SegLoop(s, bins, isref, i) ==
    IF i >= Len(s.grid_rects) THEN s
    ELSE IF Degenerate(s.grid_rects[i + 1].r)
         THEN [s EXCEPT !.ev.exc = TRUE, !.ev.seg = "aborted"]
         ELSE SegLoop(SegmentUnit(s, bins, isref, i), bins, isref, i + 1)

\* MainWindow.on_overlay_mode_changed
OnOverlayModeChanged(s) ==
    IF s.inspection_mode
    THEN [s EXCEPT !.inspection_mode = FALSE, !.inspection_results = {}]
    ELSE s

\* overlay_mode.setCurrentText(text): currentIndexChanged fires, and
\* on_overlay_mode_changed runs, only when the text changes
SetOverlayMode(s, text) ==
    IF s.overlay_mode = text THEN s
    ELSE OnOverlayModeChanged([s EXCEPT !.overlay_mode = text])

RunSegmentationAll(s) ==
    LET isref == IsReference(s)
        Snapshot(s1) == IF s1.ev.exc THEN s1 ELSE SnapshotCurrentResults(s1)
    IN  IF s.grid_rects = <<>> \/ s.current_image_path = ""
        THEN [s EXCEPT !.ev.seg = "skipped"]
        ELSE Snapshot(SegLoop([SetOverlayMode(s, "Segmentation")
                                  EXCEPT !.ev.seg = "done", !.ev.segref = isref,
                                         !.ev.units = <<>>,
                                         !.exclusion_ref_centroids = IF isref THEN {} ELSE @],
                              RefSegBins(s), isref, 0))

(***************************************************************************)
(* DefectDetector: MainWindow._detect_defects_on_pix                       *)
(***************************************************************************)
\* cv2.erode, 3x3 kernel, one iteration; beyond the border counts as foreground
Erode1(S, w, h) == {p \in S : \A q \in UnitPixels(w, h) : Adjacent(p, q, 8) => q \in S}

RECURSIVE Erode(_, _, _, _)
Erode(S, w, h, n) ==
    LET Next1(E) == IF E = S THEN S ELSE Erode(E, w, h, n - 1)
    IN  IF n <= 0 THEN S ELSE Next1(Erode1(S, w, h))

\* cv2.morphologyEx(MORPH_OPEN) with the 3x3 ellipse (a cross)
OpenCross(S, w, h) ==
    LET er == {p \in S : \A q \in UnitPixels(w, h) : Adjacent(p, q, 4) => q \in S}
    IN  er \cup {q \in UnitPixels(w, h) : \E p \in er : Adjacent(p, q, 4)}

\* the ROI: binarise, erode, keep the largest 8-connected component
DetectionROI(seg, w, h, erode_px) == LargestComponent(Erode(seg, w, h, erode_px))

\* what the outer contour of component c encloses (cv2.drawContours, filled):
\* c and its holes, the background that is shut in by c
HolesFilled(c) ==
    LET Top(S) == CHOOSE m \in S : \A v \in S : v <= m
    IN  FillInternalHoles(c, 1 + Top({p[1] : p \in c}), 1 + Top({p[2] : p \in c}))

\* twice cv2.contourArea of the outer contour of c: the contour is the polygon
\* through the centres of the border pixels, 8-neighbours joined directly, so a
\* cell of four pixel centres adds 1 when all four lie within, 1/2 when three do
ContourArea2(c) ==
    LET In(f, x, y) == IF <<x, y>> \in f THEN 1 ELSE 0
        Corners(f, p) ==
            In(f, p[1], p[2]) + In(f, p[1] + 1, p[2])
                + In(f, p[1], p[2] + 1) + In(f, p[1] + 1, p[2] + 1)
        Area2(f) ==
            2 * Cardinality({p \in f : Corners(f, p) = 4})
                + Cardinality({p \in UNION {{q, <<q[1] - 1, q[2]>>, <<q[1], q[2] - 1>>} : q \in f} :
                                  Corners(f, p) = 3})
    IN  Area2(HolesFilled(c))

\* cv2.findContours(RETR_EXTERNAL): the 8-connected components of the candidate
\* mask that do not lie in a hole of another component
ExternalContours(cand) ==
    LET cs == Components(cand, 8)
    IN  {k \in cs : \A k2 \in cs : k2 # k => ~(k \subseteq HolesFilled(k2))}

\* the cap rounded up instead of truncated
MaxAreaRoundedUp(min_area, seg_area) == Max2(min_area, (seg_area * 98 + 99) \div 100)

\* max_area = max(min_area, int(seg_area * 0.98))
MaxArea(min_area, seg_area) == Max2(min_area, (seg_area * 98) \div 100)

KeepContour(c, min_area, max_area) ==
    /\ ContourArea2(c) >= 2 * min_area
    /\ ContourArea2(c) <= 2 * max_area

\* the loop over cnts: the contours drawn into mask2
FilterContours(cand, roi, min_area) ==
    {k \in ExternalContours(cand) :
        KeepContour(k, min_area, MaxArea(min_area, Cardinality(roi)))}

\* QPixmap.copy(x, y, w, h): the whole pixmap for an empty rectangle, else the
\* part of the rectangle inside the image (possibly nothing)
PixRect(p, r) ==
    IF Degenerate(r) THEN Rect(0, 0, ImageSize(p)[1], ImageSize(p)[2])
    ELSE LET x0 == Max2(0, r.x)
             y0 == Max2(0, r.y)
         IN  Rect(x0, y0, Min2(ImageSize(p)[1], r.x + r.w) - x0,
                          Min2(ImageSize(p)[2], r.y + r.h) - y0)

\* QImage.scaled(size, IgnoreAspectRatio, SmoothTransformation) followed by > 0:
\* a target pixel is set when a set source pixel overlaps its footprint
ScaleMask(m, tw, th) ==
    IF m.w = tw /\ m.h = th THEN m.px
    ELSE {q \in UnitPixels(tw, th) :
            \E p \in m.px :
                /\ p[1] * tw < (q[1] + 1) * m.w /\ (p[1] + 1) * tw > q[1] * m.w
                /\ p[2] * th < (q[2] + 1) * m.h /\ (p[2] + 1) * th > q[2] * m.h}

\* the thresholded residual of the crop, in crop-local coordinates
CropAnomalous(p, c) ==
    {q \in UnitPixels(c.w, c.h) : <<c.x + q[1], c.y + q[2]>> \in Anomalous(p)}

\* cv2.Canny of the crop, in crop-local coordinates
CropEdges(p, c) ==
    {q \in UnitPixels(c.w, c.h) : <<c.x + q[1], c.y + q[2]>> \in Edges(p)}

\* the detector from the ROI on: nothing is attempted on an empty ROI, and
\* without a kept contour the result is None (NoMask); cand is the candidate
\* mask, the residual within the ROI
DetectInROI(cand, roi, min_area, w, h) ==
    LET Result(kept) ==
            IF kept = {} THEN NoMask
            ELSE Mask(UNION {HolesFilled(k) : k \in kept}, w, h)
    IN  IF roi = {} THEN NoMask
        ELSE Result(FilterContours(cand, roi, min_area))

\* returns [exc, mask]: exc when the crop has no pixels (qimage_to_gray_array
\* raises), else the defect mask, NoMask standing for None
DetectDefectsOnPix(p, r, seg, min_area, erode_px, method) ==
    LET c == PixRect(p, r)
        InROI(roi) ==
            [exc |-> FALSE,
             mask |-> DetectInROI(IF method = "threshold"
                                  THEN OpenCross(CropAnomalous(p, c) \cap roi, c.w, c.h)
                                  ELSE CropEdges(p, c) \cap roi,
                                  roi, min_area, c.w, c.h)]
    IN  IF Degenerate(c) THEN [exc |-> TRUE, mask |-> NoMask]
        ELSE InROI(DetectionROI(ScaleMask(seg, c.w, c.h), c.w, c.h, erode_px))

\* segmentation.mask_stats(arr)['area']
MaskArea(m) == Cardinality(m.px)

(***************************************************************************)
(* InspectionSession: MainWindow.run_inspection and friends                *)
(***************************************************************************)
HasSeg(s) == \E i \in 1 .. Len(s.thumb_list) : s.thumb_list[i].seg.has

\* the loop over rows; st = [s, results]
RECURSIVE InspectLoop(_, _, _)
InspectLoop(s, results, row) ==
    LET item == s.thumb_list[row + 1]
        Store(d) ==
            IF d.exc THEN [s |-> [s EXCEPT !.ev.exc = TRUE], results |-> results]
            ELSE InspectLoop([s EXCEPT !.thumb_list[row + 1].def = d.mask],
                             Put(results, item.text,
                                 d.mask.has /\ MaskArea(d.mask) >= s.defect_min_area),
                             row + 1)
    IN  IF row >= Len(s.thumb_list) THEN [s |-> s, results |-> results]
        ELSE IF ~item.seg.has THEN InspectLoop(s, results, row + 1)
        ELSE Store(DetectDefectsOnPix(s.current_image_path, s.grid_rects[row + 1].r,
                                      item.seg, s.defect_min_area, s.defect_mask_erode,
                                      s.defect_method))

\* the part of run_inspection after a segmentation mask was found
InspectAll(s) ==
    LET Finish(st) ==
            IF st.s.ev.exc THEN st.s
            ELSE [st.s EXCEPT !.inspection_results = st.results,
                              !.inspection_mode = TRUE,
                              !.ev.insp = "done"]
    IN  Finish(InspectLoop(s, {}, 0))

\* returns the state; ev.insp = "done" stands for the return value True
RunInspection(s) ==
    LET Inspect(s1) ==
            IF s1.ev.exc THEN s1
            ELSE IF ~HasSeg(s1) THEN [s1 EXCEPT !.ev.insp = "refused"]
            ELSE InspectAll(s1)
    IN  IF Len(s.thumb_list) = 0 THEN [s EXCEPT !.ev.insp = "refused"]
        ELSE Inspect(IF HasSeg(s) THEN s ELSE RunSegmentationAll(s))

\* MainWindow.exit_inspection_mode(force_overlay_mode='Both'): the overlay combo
\* box is set with its signals blocked
ExitInspectionMode(s) ==
    IF s.inspection_mode
    THEN [s EXCEPT !.inspection_mode = FALSE, !.inspection_results = {},
                   !.overlay_mode = "Both"]
    ELSE [s EXCEPT !.overlay_mode = "Both"]

\* faulty variant (sensitivity of C37): unchecking the toggle leaves inspection
\* mode as it is
OnInspectionToggledKeepMode(s, checked) ==
    LET Uncheck(s1) ==
            IF s1.ev.exc \/ s1.ev.insp = "done" THEN s1
            ELSE [s1 EXCEPT !.run_insp_btn = FALSE]
    IN  IF checked
        THEN Uncheck(RunInspection([s EXCEPT !.run_insp_btn = TRUE]))
        ELSE [s EXCEPT !.run_insp_btn = FALSE]

\* MainWindow.on_inspection_toggled
OnInspectionToggled(s, checked) ==
    LET Uncheck(s1) ==
            IF s1.ev.exc \/ s1.ev.insp = "done" THEN s1
            ELSE [s1 EXCEPT !.run_insp_btn = FALSE]
    IN  IF checked
        THEN Uncheck(RunInspection([s EXCEPT !.run_insp_btn = TRUE]))
        ELSE ExitInspectionMode([s EXCEPT !.run_insp_btn = FALSE])

\* faulty variant (sensitivity of C13): every start adds a timeout of its own
TimerStartQueued(pending) == pending + 1

\* QTimer.start() of a single-shot timer: the timer is restarted, so whatever
\* was pending is replaced by one timeout
TimerStart(pending) == 1

\* MainWindow.schedule_defect_autoupdate
ScheduleDefectAutoupdate(s) ==
    [(IF s.inspection_mode
      THEN ExitInspectionMode([s EXCEPT !.run_insp_btn = FALSE])
      ELSE s) EXCEPT !.defect_autoupdate_timer = TimerStart(@)]

\* MainWindow._auto_update_defect_selected_unit
AutoUpdateDefectSelectedUnit(s) ==
    LET row == s.current_row
        Store(d) ==
            IF d.exc THEN [s EXCEPT !.ev.exc = TRUE]
            ELSE [s EXCEPT !.thumb_list[row + 1].def = d.mask]
    IN  IF row < 0 \/ row >= Len(s.thumb_list) THEN s
        ELSE IF ~s.thumb_list[row + 1].seg.has THEN s
        ELSE Store(DetectDefectsOnPix(s.current_image_path, s.grid_rects[row + 1].r,
                                      s.thumb_list[row + 1].seg,
                                      s.defect_min_area, s.defect_mask_erode,
                                      s.defect_method))

(***************************************************************************)
(* ImageSetManager: switching images                                       *)
(***************************************************************************)
\* the guard `ref and cur and cur != ref` of apply_indexing, add_exclusion, ...
OnNonReference(s) ==
    /\ s.reference_image_path # ""
    /\ s.current_image_path # ""
    /\ s.current_image_path # s.reference_image_path

\* edit_btn / add_excl_btn: disabled by _switch_to_image on a non-reference image
ButtonsEnabled(s) ==
    s.current_image_path = "" \/ s.current_image_path = s.reference_image_path

\* cv2.imread(path).shape, None (<<>>) when the file does not decode
Decodes(path) == path \in Readable \cup {GridImage}

ProbeSize(path) == IF Decodes(path) THEN ImageSize(path) ELSE <<>>

\* the part of _switch_to_image after the image was loaded
ShowImage(s, path) ==
    LET isref == s.reference_image_path = "" \/ path = s.reference_image_path
        Inspect(s2) == IF s2.run_insp_btn /\ s2.grid_rects # <<>> THEN RunInspection(s2) ELSE s2
        Segment(s1) ==
            IF s1.grid_rects # <<>>
            THEN [RunSegmentationAll(RestoreResultsForPath(PopulateThumbnails(s1), path))
                     EXCEPT !.ev.exc = FALSE]
            ELSE s1
    IN  Inspect(Segment([s EXCEPT !.current_image_path = path,
                                  !.drawing_enabled = IF isref THEN @ ELSE FALSE,
                                  !.edit_btn = IF isref THEN @ ELSE FALSE,
                                  !.apply_btn_enabled = IF isref THEN s.drawing_enabled ELSE FALSE,
                                  !.thumb_list = <<>>,
                                  !.current_row = -1,
                                  !.inspection_mode = FALSE,
                                  !.inspection_results = {}]))

\* faulty variant (sensitivity of C11): the size of the new image is not compared
SwitchToImageAnySize(s, path) ==
    IF ~Decodes(path) THEN SnapshotCurrentResults(s)
    ELSE ShowImage(SnapshotCurrentResults(s), path)

\* faulty variant (sensitivity of C30): every switch designates the image anew
SwitchToImageNewReference(s, path) ==
    LET new_size == ProbeSize(path)
        SetReference(s1) ==
            [s1 EXCEPT !.reference_image_path = path, !.reference_image_size = new_size]
        Switch(s2) ==
            IF /\ s2.reference_image_size # <<>>
               /\ new_size # <<>>
               /\ new_size # s2.reference_image_size
               /\ (s2.grid_rects # <<>> \/ RectTruthy(s2.fixed_img_rect))
            THEN s2
            ELSE IF ~Decodes(path) THEN s2
            ELSE ShowImage(s2, path)
    IN  Switch(SetReference(SnapshotCurrentResults(s)))

\* MainWindow._switch_to_image (the path exists)
SwitchToImage(s, path) ==
    LET new_size == ProbeSize(path)
        SetReference(s1) ==
            IF s1.reference_image_path = ""
            THEN [s1 EXCEPT !.reference_image_path = path, !.reference_image_size = new_size]
            ELSE s1
        Switch(s2) ==
            IF /\ s2.reference_image_size # <<>>
               /\ new_size # <<>>
               /\ new_size # s2.reference_image_size
               /\ (s2.grid_rects # <<>> \/ RectTruthy(s2.fixed_img_rect))
            THEN s2
            ELSE IF ~Decodes(path) THEN s2
            ELSE ShowImage(s2, path)
    IN  Switch(SetReference(SnapshotCurrentResults(s)))

\* MainWindow.load_image with the chosen file (on_image_files_dropped does the same)
LoadImage(s, path) ==
    SwitchToImage(IF s.reference_image_path = ""
                  THEN [s EXCEPT !.reference_image_path = path,
                                 !.reference_image_size = ProbeSize(path)]
                  ELSE s,
                  path)

(***************************************************************************)
(* Indexing                                                                *)
(***************************************************************************)
\* a spin box's setValue: valueChanged fires, and update_grid_preview runs, only
\* when the value changes
SetSpin(s, field, v) ==
    IF s.params[field] = v THEN s
    ELSE UpdateGridPreview([s EXCEPT !.params[field] = v])

\* MainWindow.apply_indexing
ApplyIndexing(s) ==
    LET Apply(s1) ==
            IF OnNonReference(s1) THEN s1
            ELSE IF ~RectTruthy(s1.fixed_img_rect) THEN s1
            ELSE [UpdateGridPreview(s1) EXCEPT !.drawing_enabled = FALSE,
                                               !.edit_btn = FALSE,
                                               !.apply_btn_enabled = FALSE]
    IN  Apply(IF s.reference_image_path = "" /\ s.current_image_path # ""
              THEN [s EXCEPT !.reference_image_path = s.current_image_path,
                             !.reference_image_size = ImageSize(s.current_image_path)]
              ELSE s)

\* MainWindow.toggle_editing
ToggleEditing(s, checked) ==
    [s EXCEPT !.edit_btn = checked, !.drawing_enabled = checked, !.apply_btn_enabled = TRUE]

\* MainWindow.on_cell_clicked
OnCellClicked(s, idx) ==
    IF idx < Len(s.thumb_list) THEN [s EXCEPT !.current_row = idx] ELSE s

\* MainWindow.center_on_cell: after the zoom, a new single-shot timer becomes
\* _seg_debounce_timer and the segmentation controls are connected (once more)
\* to a lambda that starts whatever timer the attribute holds; a timer that
\* was the attribute before keeps its pending timeout
CenterOnCell(s, row) ==
    IF row < 0 \/ row >= Len(s.grid_rects) THEN s
    ELSE [s EXCEPT !.seg_debounce_superseded = @ + Max2(0, s.seg_debounce_timer),
                   !.seg_debounce_timer = 0]

\* MainWindow.on_thumbnail_selected
OnThumbnailSelected(s, row) ==
    IF row < 0 \/ row >= Len(s.thumb_list) THEN s
    ELSE IF row < Len(s.grid_rects) THEN CenterOnCell(s, row)
    ELSE s

\* the head of test_defect_detection, test_defect_detection_all: inspection
\* mode is left and the toggle unchecked with its signal blocked
LeaveInspectionForTest(s) ==
    IF s.inspection_mode THEN ExitInspectionMode([s EXCEPT !.run_insp_btn = FALSE]) ELSE s

\* MainWindow.test_defect_detection; spin is defect_unit_spin.value(), used when
\* no thumbnail is current
TestDefectDetection(s, spin) ==
    LET row == IF s.current_row < 0 THEN spin ELSE s.current_row
        Store(s1, d) ==
            IF d.exc THEN [s1 EXCEPT !.ev.exc = TRUE]
            ELSE CenterOnCell([s1 EXCEPT !.thumb_list[row + 1].def = d.mask,
                                         !.current_row = row],
                              row)
        Detect(s1) ==
            Store(s1, DetectDefectsOnPix(s1.current_image_path, s1.grid_rects[row + 1].r,
                                         s1.thumb_list[row + 1].seg,
                                         s1.defect_min_area, s1.defect_mask_erode,
                                         s1.defect_method))
        Test(s0) ==
            IF row < 0 \/ row >= Len(s0.thumb_list) THEN s0
            ELSE IF ~s0.thumb_list[row + 1].seg.has THEN s0
            ELSE Detect(SetOverlayMode(s0, "Both"))
    IN  Test(LeaveInspectionForTest(s))

\* the loop of test_defect_detection_all over the rows
RECURSIVE TestAllLoop(_, _)
TestAllLoop(s, row) ==
    LET Store(d) ==
            IF d.exc THEN [s EXCEPT !.ev.exc = TRUE]
            ELSE TestAllLoop([s EXCEPT !.thumb_list[row + 1].def = d.mask], row + 1)
    IN  IF row >= Len(s.thumb_list) THEN s
        ELSE IF ~s.thumb_list[row + 1].seg.has THEN TestAllLoop(s, row + 1)
        ELSE Store(DetectDefectsOnPix(s.current_image_path, s.grid_rects[row + 1].r,
                                      s.thumb_list[row + 1].seg,
                                      s.defect_min_area, s.defect_mask_erode,
                                      s.defect_method))

\* MainWindow.test_defect_detection_all
TestDefectDetectionAll(s) ==
    LET Select(s2) ==
            IF s2.ev.exc \/ s2.current_row >= 0 THEN s2 ELSE [s2 EXCEPT !.current_row = 0]
        Test(s0) ==
            IF Len(s0.thumb_list) = 0 THEN s0
            ELSE Select(TestAllLoop(SetOverlayMode(s0, "Both"), 0))
    IN  Test(LeaveInspectionForTest(s))

\* the lambdas connected to the segmentation controls by center_on_cell: none
\* before its first run, afterwards each starts the current timer
SegParamChanged(s) ==
    IF s.seg_debounce_timer < 0 THEN s
    ELSE [s EXCEPT !.seg_debounce_timer = TimerStart(@)]

(***************************************************************************)
(* Exclusions                                                              *)
(***************************************************************************)
\* MainWindow._selected_exclusion_index, -1 standing for None
SelectedExclusionIndex(s) ==
    IF s.exclusions = <<>> THEN -1
    ELSE IF s.excl_index < 0 \/ s.excl_index >= Len(s.exclusions) THEN -1
    ELSE s.excl_index

\* MainWindow._refresh_exclusion_edit_overlay
RefreshExclusionEditOverlay(s, idx) ==
    IF idx < 0 \/ idx >= Len(s.exclusions) \/ s.grid_rects = <<>> THEN s
    ELSE [s EXCEPT !.exclusion_edit_shape = s.exclusions[idx + 1].shape]

\* MainWindow.on_exclusion_index_changed
OnExclusionIndexChanged(s) ==
    LET idx == SelectedExclusionIndex(s)
    IN  IF idx < 0 THEN [s EXCEPT !.exclusion_edit_shape = ""]
        ELSE IF s.exclusion_edit_active THEN RefreshExclusionEditOverlay(s, idx)
        ELSE s

\* excl_index.setRange(0, hi); excl_index.setValue(v)
SetExclIndex(s, hi, v) ==
    LET nv == Max2(0, Min2(hi, v))
    IN  IF nv = s.excl_index THEN s
        ELSE OnExclusionIndexChanged([s EXCEPT !.excl_index = nv])

BoolName(b) == IF b THEN "True" ELSE "False"

\* MainWindow.add_exclusion
AddExclusion(s) ==
    IF OnNonReference(s) THEN s
    ELSE IF s.grid_rects = <<>> THEN s
    ELSE [OnThumbnailSelected(s, 0)
            EXCEPT !.exclusion_mode = TRUE,
                   !.drawing_enabled_before_exclusion = BoolName(s.drawing_enabled),
                   !.drawing_enabled = TRUE]

\* MainWindow.on_exclusion_drawn; shape is excl_shape.currentText()
OnExclusionDrawn(s, excl_rect, shape) ==
    LET b  == IF s.grid_rects = <<>> THEN NoRect ELSE s.grid_rects[1].r
        x  == Max2(b.x, excl_rect.x)
        y  == Max2(b.y, excl_rect.y)
        x2 == Min2(b.x + b.w, excl_rect.x + excl_rect.w)
        y2 == Min2(b.y + b.h, excl_rect.y + excl_rect.h)
        rel_x == x - b.x
        rel_y == y - b.y
        rel_w == x2 - x
        rel_h == y2 - y
        excl == IF shape = "rectangle"
                THEN RectExcl(rel_x, rel_y, rel_w, rel_h)
                ELSE CircleExcl((2 * rel_x + rel_w) \div 2, (2 * rel_y + rel_h) \div 2,
                                Min2(rel_w, rel_h) \div 2)
        Restore(s4) ==
            IF s4.drawing_enabled_before_exclusion = "False"
            THEN [s4 EXCEPT !.apply_btn_enabled = FALSE]
            ELSE s4
        Refresh(s3) == IF s3.ev.exc THEN s3 ELSE Restore(OnExclusionIndexChanged(s3))
        Select(s1) ==
            Refresh(RunSegmentationAll(
                SetExclIndex(s1, Len(s1.exclusions) - 1, Len(s1.exclusions) - 1)))
    IN  IF s.grid_rects = <<>> THEN s
        ELSE IF x2 <= x \/ y2 <= y THEN s
        ELSE Select([s EXCEPT !.exclusions = Append(@, excl)])

\* ImageWidget.mouseReleaseEvent after a drag that spans `rect`
MouseRelease(s, rect, shape) ==
    IF s.exclusion_mode
    THEN OnExclusionDrawn(
            [s EXCEPT !.exclusion_mode = FALSE,
                      !.drawing_enabled = IF s.drawing_enabled_before_exclusion = "None"
                                          THEN @
                                          ELSE s.drawing_enabled_before_exclusion = "True"],
            rect, shape)
    ELSE UpdateGridPreview([s EXCEPT !.fixed_img_rect = rect, !.grid_rects = <<>>])

\* MainWindow._clamp_exclusion_to_base_unit
ClampExclusionToBaseUnit(s, excl) ==
    IF s.grid_rects = <<>> THEN excl
    ELSE LET bw == s.grid_rects[1].r.w
             bh == s.grid_rects[1].r.h
         IN  IF excl.shape = "rect"
             THEN LET x == Max2(0, Min2(excl.x, Max2(0, bw - 1)))
                      y == Max2(0, Min2(excl.y, Max2(0, bh - 1)))
                  IN  RectExcl(x, y, Max2(1, Min2(excl.w, Max2(1, bw - x))),
                                     Max2(1, Min2(excl.h, Max2(1, bh - y))))
             ELSE LET cx == Max2(0, Min2(excl.cx, Max2(0, bw - 1)))
                      cy == Max2(0, Min2(excl.cy, Max2(0, bh - 1)))
                      r  == Max2(1, excl.r)
                  IN  CircleExcl(cx, cy,
                                 Min2(Min2(r, Max2(1, cx)),
                                      Min2(Max2(1, cy),
                                           Min2(Max2(1, bw - cx - 1), Max2(1, bh - cy - 1)))))

\* ModifyExclusionDialog._on_fields_changed: one field of the selected exclusion
\* was edited to v
DialogFieldsChanged(s, field, v) ==
    LET i == SelectedExclusionIndex(s)
        Refresh(s1) ==
            [(IF s1.exclusion_edit_active THEN RefreshExclusionEditOverlay(s1, i) ELSE s1)
                EXCEPT !.exclusion_edit_timer = TRUE]
    IN  IF i < 0 THEN s
        ELSE Refresh([s EXCEPT !.exclusions[i + 1] =
                        ClampExclusionToBaseUnit(s, [s.exclusions[i + 1] EXCEPT ![field] = v])])

\* MainWindow.toggle_edit_exclusion
ToggleEditExclusion(s) ==
    IF OnNonReference(s) THEN s
    ELSE IF s.exclusions = <<>> THEN s
    ELSE IF s.exclusion_edit_active
         THEN [s EXCEPT !.exclusion_edit_active = FALSE, !.exclusion_edit_shape = ""]
    ELSE IF SelectedExclusionIndex(s) < 0 THEN s
    ELSE RefreshExclusionEditOverlay(
             [OnThumbnailSelected(s, 0) EXCEPT !.exclusion_edit_active = TRUE],
             SelectedExclusionIndex(s))

RemoveAt(seq, i) == [j \in 1 .. Len(seq) - 1 |-> IF j < i THEN seq[j] ELSE seq[j + 1]]

\* MainWindow.delete_exclusion_at
DeleteExclusionAt(s, idx) ==
    LET Select(s1) ==
            IF s1.exclusions = <<>>
            THEN [SetExclIndex(s1, 0, 0) EXCEPT !.exclusion_edit_active = FALSE,
                                                 !.exclusion_edit_shape = ""]
            ELSE OnExclusionIndexChanged(
                     SetExclIndex(s1, Len(s1.exclusions) - 1,
                                  Min2(idx, Len(s1.exclusions) - 1)))
    IN  IF idx < 0 \/ idx >= Len(s.exclusions) THEN s
        ELSE RunSegmentationAll(Select([s EXCEPT !.exclusions = RemoveAt(@, idx + 1)]))

\* MainWindow.on_exclusion_edit_updated; info = [shape, w, h] or [shape, r]
OnExclusionEditUpdated(s, info) ==
    LET idx == SelectedExclusionIndex(s)
    IN  IF idx < 0 THEN s
        ELSE IF info.shape # s.exclusions[idx + 1].shape THEN s
        ELSE IF info.shape = "rect"
             THEN [s EXCEPT !.exclusions[idx + 1].w = Max2(1, info.w),
                            !.exclusions[idx + 1].h = Max2(1, info.h)]
             ELSE [s EXCEPT !.exclusions[idx + 1].r = Max2(1, info.r)]

\* MainWindow.on_exclusion_edit_committed
OnExclusionEditCommitted(s, info) == RunSegmentationAll(OnExclusionEditUpdated(s, info))

(***************************************************************************)
(* GridIO: MainWindow.import_grid                                          *)
(***************************************************************************)
\* the keys of a JSON object are strings: str(int(k)) on export, int(k) on
\* import; a string is the sequence of its characters
DigitChars == <<"0", "1", "2", "3", "4", "5", "6", "7", "8", "9">>

RECURSIVE StrOfInt(_)
StrOfInt(k) ==
    IF k < 0 THEN <<"-">> \o StrOfInt(-k)
    ELSE IF k < 10 THEN <<DigitChars[k + 1]>>
    ELSE Append(StrOfInt(k \div 10), DigitChars[(k % 10) + 1])

RECURSIVE IntOfStr(_)
IntOfStr(str) ==
    LET Value(c) == CHOOSE d \in 0 .. 9 : DigitChars[d + 1] = c
    IN  IF str = <<>> THEN 0
        ELSE IF Head(str) = "-" THEN -IntOfStr(Tail(str))
        ELSE 10 * IntOfStr(SubSeq(str, 1, Len(str) - 1)) + Value(str[Len(str)])

\* a box of a document; index = -1 stands for a missing "index" key
Box(index, x, y, w, h) == [index |-> index, x |-> x, y |-> y, w |-> w, h |-> h]

NoMeta == [has |-> FALSE, params |-> GridParams(0, 0, 0, 0, 0, 0, 0, 0), base_unit |-> NoRect]

\* a version-2 document as export_grid writes it
DocV2 ==
    [kind |-> "dict",
     boxes |-> <<Box(0, 0, 0, 2, 2), Box(1, 2, 0, 2, 2)>>,
     meta |-> [has |-> TRUE, params |-> GridParams(2, 1, 1, 1, 0, 0, 0, 0),
               base_unit |-> Rect(0, 0, 2, 2)],
     exclusions |-> <<RectExcl(1, 1, 1, 1)>>,
     align |-> TRUE,
     ref_centroids |-> {[k |-> <<"0">>, v |-> [sx |-> 2, sy |-> 2, n |-> 4]],
                        [k |-> <<"1">>, v |-> [sx |-> 2, sy |-> 1, n |-> 2]]}]

\* two boxes carrying the same index, no metadata
DocDuplicate ==
    [kind |-> "dict",
     boxes |-> <<Box(0, 0, 0, 2, 2), Box(0, 2, 0, 2, 2)>>,
     meta |-> NoMeta,
     exclusions |-> <<>>,
     align |-> FALSE,
     ref_centroids |-> {}]

\* a legacy list of boxes, the first of width 0
DocDegenerate ==
    [kind |-> "list",
     boxes |-> <<Box(-1, 0, 0, 0, 2), Box(-1, 0, 0, 2, 2)>>,
     meta |-> NoMeta,
     exclusions |-> <<>>,
     align |-> FALSE,
     ref_centroids |-> {}]

\* a dict document without any box
DocEmpty ==
    [kind |-> "dict",
     boxes |-> <<>>,
     meta |-> NoMeta,
     exclusions |-> <<RectExcl(0, 0, 1, 1)>>,
     align |-> FALSE,
     ref_centroids |-> {}]

Docs == {DocV2, DocDuplicate, DocDegenerate, DocEmpty}

\* faulty variant (sensitivity of C29): the synthesized indices start at 1
RECURSIVE ImportBoxesOneBased(_, _)
ImportBoxesOneBased(boxes, grid) ==
    IF boxes = <<>> THEN grid
    ELSE LET b == Head(boxes)
         IN  ImportBoxesOneBased(Tail(boxes),
                                 Append(grid, [r |-> Rect(b.x, b.y, b.w, b.h),
                                               idx |-> IF b.index = -1 THEN Len(grid) + 1
                                                       ELSE b.index]))

\* the loop over the boxes: idx = len(grid) when the box has no index
RECURSIVE ImportBoxes(_, _)
ImportBoxes(boxes, grid) ==
    IF boxes = <<>> THEN grid
    ELSE LET b == Head(boxes)
         IN  ImportBoxes(Tail(boxes),
                         Append(grid, [r |-> Rect(b.x, b.y, b.w, b.h),
                                       idx |-> IF b.index = -1 THEN Len(grid) ELSE b.index]))

\* the metadata block: the setValue calls in the code's order, the base unit last
ImportMeta(s, meta) ==
    LET m == meta.params
        SetIfPositive(t, field) == IF m[field] > 0 THEN SetSpin(t, field, m[field]) ELSE t
        SetBase(t) ==
            IF meta.base_unit # NoRect THEN [t EXCEPT !.fixed_img_rect = meta.base_unit] ELSE t
    IN  SetBase(
          SetSpin(
            SetSpin(
              SetSpin(
                SetSpin(
                  SetSpin(
                    SetSpin(SetIfPositive(SetIfPositive(s, "units_x"), "units_y"),
                            "blocks_x", Max2(1, m.blocks_x)),
                    "blocks_y", Max2(1, m.blocks_y)),
                  "unit_space_x", m.unit_space_x),
                "unit_space_y", m.unit_space_y),
              "block_space_x", m.block_space_x),
            "block_space_y", m.block_space_y))

\* MainWindow.import_grid with the chosen document (an image is loaded)
ImportGrid(s, doc) ==
    LET Select(s4) ==
            OnExclusionIndexChanged(
                IF s4.exclusions # <<>>
                THEN SetExclIndex(s4, Len(s4.exclusions) - 1,
                                  Min2(s4.excl_index, Len(s4.exclusions) - 1))
                ELSE SetExclIndex(s4, 0, 0))
        Meta(s2) == IF doc.meta.has THEN ImportMeta(s2, doc.meta) ELSE s2
        Boxes(s1, grid) ==
            IF grid = <<>> THEN s1
            ELSE Select(PopulateThumbnails(Meta([s1 EXCEPT !.grid_rects = grid])))
    IN  Boxes(IF doc.kind = "dict"
              THEN [s EXCEPT !.exclusions = doc.exclusions,
                             !.exclusion_ref_centroids =
                                  IF doc.align
                                  THEN {[k |-> IntOfStr(e.k), v |-> e.v] : e \in doc.ref_centroids}
                                  ELSE @]
              ELSE s,
              ImportBoxes(doc.boxes, <<>>))

\* the document MainWindow.export_grid writes (a grid exists)
ExportGrid(s) ==
    [kind |-> "dict",
     boxes |-> [i \in 1 .. Len(s.grid_rects) |->
                   Box(s.grid_rects[i].idx, s.grid_rects[i].r.x, s.grid_rects[i].r.y,
                       s.grid_rects[i].r.w, s.grid_rects[i].r.h)],
     meta |-> [has |-> TRUE, params |-> s.params,
               base_unit |-> IF RectTruthy(s.fixed_img_rect) THEN s.fixed_img_rect ELSE NoRect],
     exclusions |-> s.exclusions,
     align |-> TRUE,
     ref_centroids |-> {[k |-> StrOfInt(e.k), v |-> e.v] : e \in s.exclusion_ref_centroids}]

(***************************************************************************)
(* The user's operations and the timers: one action per handler            *)
(***************************************************************************)
MaxExclusions == 2

\* how many handlers a run explores
MaxSteps == 5

\* the application is running and the exploration budget is not used up
Live == ~crashed /\ steps < MaxSteps

ParamFields ==
    {"units_x", "units_y", "blocks_x", "blocks_y",
     "unit_space_x", "unit_space_y", "block_space_x", "block_space_y"}

\* the values the user dials in
ParamDomain(field) ==
    CASE field = "units_x" -> {0, 1, 2}
      [] field \in {"units_y", "blocks_x", "blocks_y"} -> {0, 1}
      [] field = "unit_space_x" -> {0, 1}
      [] OTHER -> {0}

\* the rectangles the user drags
DragRects == {Rect(0, 0, 2, 2), Rect(4, 0, 2, 2)}

MinAreaDomain == {0, 1, DefaultMinArea}

MaskErodeDomain == {0, DefaultMaskErode}

GaussBlurDomain == {DefaultGaussBlur, 5}

\* dialog edits: a field of the selected exclusion and its new value
DialogEdits == {<<"w", 1>>, <<"x", 1>>, <<"r", 1>>, <<"cx", 0>>}

\* sizes the drag handle is released at
HandleSizes == {1, 3}

InCell(s, x, y) ==
    \E i \in 1 .. Len(s.grid_rects) :
        LET r == s.grid_rects[i].r
        IN  r.x <= x /\ x < r.x + r.w /\ r.y <= y /\ y < r.y + r.h

\* load_btn, a file dropped on the canvas, or another entry of image_combo
DoLoadImage ==
    \E path \in ImagePaths :
        /\ Live
        /\ Commit(LoadImage(Begin(State, "load_image", [path |-> path]), path))

\* a click-drag on the canvas: press (which starts a drag only when drawing is
\* enabled and the press is not a cell selection), moves, release
DoMouseDrag ==
    \E rect \in DragRects, shape \in {"rectangle", "circle"} :
        /\ Live
        /\ current_image_path # ""
        /\ drawing_enabled
        /\ exclusion_mode \/ (~InCell(State, rect.x, rect.y) /\ shape = "rectangle")
        /\ Commit(MouseRelease(Begin(State, "mouse_drag", [rect |-> rect, shape |-> shape]),
                               rect, shape))

\* a click on the cell at position i emits cellClicked(idx)
DoCellClick ==
    \E i \in 1 .. Len(grid_rects) :
        /\ Live
        /\ current_image_path # ""
        /\ ~drawing_enabled \/ ~exclusion_mode
        /\ ~Degenerate(grid_rects[i].r)
        /\ Commit(OnCellClicked(Begin(State, "cell_click", [idx |-> grid_rects[i].idx]),
                                grid_rects[i].idx))

\* a grid spin box (or its slider) is changed by the user
DoSetGridParam ==
    \E field \in ParamFields :
        \E v \in ParamDomain(field) :
            /\ Live
            /\ v # params[field]
            /\ Commit(SetSpin(Begin(State, "set_grid_param", [field |-> field, v |-> v]),
                              field, v))

DoApplyIndexing ==
    /\ Live
    /\ apply_btn_enabled
    /\ Commit(ApplyIndexing(Begin(State, "apply_indexing", [none |-> TRUE])))

DoToggleEditing ==
    /\ Live
    /\ ButtonsEnabled(State)
    /\ Commit(ToggleEditing(Begin(State, "toggle_editing", [checked |-> ~edit_btn]), ~edit_btn))

DoAddExclusion ==
    /\ Live
    /\ ButtonsEnabled(State)
    /\ Len(exclusions) < MaxExclusions
    /\ Commit(AddExclusion(Begin(State, "add_exclusion", [none |-> TRUE])))

\* the user changes the excl_index spin box (its range is 0 .. len - 1)
DoSetExclIndex ==
    \E v \in 0 .. (Len(exclusions) - 1) :
        /\ Live
        /\ v # excl_index
        /\ Commit(SetExclIndex(Begin(State, "set_excl_index", [v |-> v]),
                               Len(exclusions) - 1, v))

\* open_modify_exclusion_dialog lets the dialog open
DialogOpens(s) == ~OnNonReference(s) /\ s.exclusions # <<>>

\* the user edits a field in the dialog; the spin boxes hold >= 0 (position) or
\* >= 1 (size)
DoDialogFieldsChanged ==
    \E e \in DialogEdits :
        /\ Live
        /\ DialogOpens(State)
        /\ SelectedExclusionIndex(State) >= 0
        /\ e[1] \in DOMAIN exclusions[SelectedExclusionIndex(State) + 1]
        /\ exclusions[SelectedExclusionIndex(State) + 1][e[1]] # e[2]
        /\ Commit(DialogFieldsChanged(
                    Begin(State, "dialog_fields_changed", [field |-> e[1], v |-> e[2]]),
                    e[1], e[2]))

\* ModifyExclusionDialog._on_delete
DoDialogDelete ==
    /\ Live
    /\ DialogOpens(State)
    /\ SelectedExclusionIndex(State) >= 0
    /\ Commit(DeleteExclusionAt(Begin(State, "dialog_delete", [none |-> TRUE]),
                                SelectedExclusionIndex(State)))

\* ModifyExclusionDialog._on_edit_toggled
DoDialogEditToggled ==
    /\ Live
    /\ DialogOpens(State)
    /\ Commit(ToggleEditExclusion(Begin(State, "dialog_edit_toggled", [none |-> TRUE])))

\* the on-canvas handle is grabbed, dragged and released at size v
DoExclusionHandleDrag ==
    \E v \in HandleSizes :
        /\ Live
        /\ current_image_path # ""
        /\ exclusion_edit_shape # ""
        /\ LET info == IF exclusion_edit_shape = "rect"
                       THEN [shape |-> "rect", w |-> v, h |-> v]
                       ELSE [shape |-> "circle", r |-> v]
           IN  Commit(OnExclusionEditCommitted(
                        Begin(State, "exclusion_handle_drag", info), info))

\* _exclusion_edit_timer times out
DoExclusionEditTimer ==
    /\ Live
    /\ exclusion_edit_timer
    /\ Commit(RunSegmentationAll(
                [Begin(State, "exclusion_edit_timer", [none |-> TRUE])
                    EXCEPT !.exclusion_edit_timer = FALSE]))

\* run_seg_btn
DoRunSegmentation ==
    /\ Live
    /\ Commit(RunSegmentationAll(Begin(State, "run_segmentation", [none |-> TRUE])))

DoImportGrid ==
    \E doc \in Docs :
        /\ Live
        /\ current_image_path # ""
        /\ Commit(ImportGrid(Begin(State, "import_grid", [doc |-> doc]), doc))

DoInspectionToggled ==
    /\ Live
    /\ Commit(OnInspectionToggled(
                Begin(State, "inspection_toggled", [checked |-> ~run_insp_btn]),
                ~run_insp_btn))

\* defect_min_area / defect_mask_erode changed by the user
DoSetDefectParam ==
    \/ \E v \in MinAreaDomain :
        /\ Live
        /\ v # defect_min_area
        /\ Commit(ScheduleDefectAutoupdate(
                    [Begin(State, "set_min_area", [v |-> v]) EXCEPT !.defect_min_area = v]))
    \/ \E v \in MaskErodeDomain :
        /\ Live
        /\ v # defect_mask_erode
        /\ Commit(ScheduleDefectAutoupdate(
                    [Begin(State, "set_mask_erode", [v |-> v]) EXCEPT !.defect_mask_erode = v]))

\* _defect_autoupdate_timer times out
DoDefectAutoupdateTimer ==
    /\ Live
    /\ defect_autoupdate_timer > 0
    /\ Commit(AutoUpdateDefectSelectedUnit(
                [Begin(State, "defect_autoupdate_timer", [none |-> TRUE])
                    EXCEPT !.defect_autoupdate_timer = @ - 1]))

\* gauss_spin is changed by the user
DoSetSegParam ==
    \E v \in GaussBlurDomain :
        /\ Live
        /\ v # gauss_spin
        /\ Commit(SegParamChanged(
                    [Begin(State, "set_gauss_blur", [v |-> v]) EXCEPT !.gauss_spin = v]))

\* a segmentation debounce timer times out: the current one or a replaced one
DoSegDebounceTimer ==
    \E which \in {"current", "superseded"} :
        /\ Live
        /\ which = "current" => seg_debounce_timer > 0
        /\ which = "superseded" => seg_debounce_superseded > 0
        /\ Commit(RunSegmentationAll(
                    IF which = "current"
                    THEN [Begin(State, "seg_debounce_timer", [which |-> which])
                            EXCEPT !.seg_debounce_timer = @ - 1]
                    ELSE [Begin(State, "seg_debounce_timer", [which |-> which])
                            EXCEPT !.seg_debounce_superseded = @ - 1]))

Next ==
    \/ DoLoadImage
    \/ DoMouseDrag
    \/ DoCellClick
    \/ DoSetGridParam
    \/ DoApplyIndexing
    \/ DoToggleEditing
    \/ DoAddExclusion
    \/ DoSetExclIndex
    \/ DoDialogFieldsChanged
    \/ DoDialogDelete
    \/ DoDialogEditToggled
    \/ DoExclusionHandleDrag
    \/ DoExclusionEditTimer
    \/ DoRunSegmentation
    \/ DoImportGrid
    \/ DoInspectionToggled
    \/ DoSetDefectParam
    \/ DoSetSegParam
    \/ DoSegDebounceTimer
    \/ DoDefectAutoupdateTimer

Spec == Init /\ [][Next]_vars

(***************************************************************************)
(* Grid generation on its own: a plate image is loaded, the spin boxes     *)
(* hold any values, and the user draws the base unit, edits a spin box or  *)
(* applies the indexing.                                                   *)
(***************************************************************************)
GridCounts == 0 .. 2

MaxGridSteps == 2

GridSpacings == {0, 3}

GridRects == {Rect(10, 10, 100, 80), Rect(0, 0, 3, 2)}

GridParamSets ==
    {GridParams(ux, uy, bx, by, sux, suy, sbx, sby) :
        ux \in GridCounts, uy \in GridCounts, bx \in GridCounts, by \in GridCounts,
        sux \in GridSpacings, suy \in GridSpacings, sbx \in GridSpacings, sby \in GridSpacings}

GridParamDomain(field) ==
    IF field \in {"units_x", "units_y", "blocks_x", "blocks_y"}
    THEN GridCounts
    ELSE GridSpacings

\* exclusions without a grid: what import_grid leaves behind for a document
\* that has exclusions but no valid box
GridExclusionLists == {<<>>, DocEmpty.exclusions}

InitGrid ==
    \E p \in GridParamSets, e \in GridExclusionLists :
        /\ StartsAs([LoadImage(Begin(InitState, "load_image", [path |-> GridImage]), GridImage)
                        EXCEPT !.params = p, !.exclusions = e])
        /\ steps = 0
        /\ fn_in = NoCall
        /\ fn_out = NoCall

GridLive == ~crashed /\ steps < MaxGridSteps

GridDrawBaseUnit ==
    \E rect \in GridRects :
        /\ GridLive
        /\ drawing_enabled
        /\ ~InCell(State, rect.x, rect.y)
        /\ Commit(MouseRelease(Begin(State, "mouse_drag", [rect |-> rect, shape |-> "rectangle"]),
                               rect, "rectangle"))

GridSetParam ==
    \E field \in ParamFields :
        \E v \in GridParamDomain(field) :
            /\ GridLive
            /\ v # params[field]
            /\ Commit(SetSpin(Begin(State, "set_grid_param", [field |-> field, v |-> v]),
                              field, v))

GridApplyIndexing ==
    /\ GridLive
    /\ apply_btn_enabled
    /\ Commit(ApplyIndexing(Begin(State, "apply_indexing", [none |-> TRUE])))

NextGrid == GridDrawBaseUnit \/ GridSetParam \/ GridApplyIndexing

SpecGrid == InitGrid /\ [][NextGrid]_vars

(***************************************************************************)
(* Exclusion subtraction on its own: one rect exclusion, one shift, one    *)
(* mask of ExclW x ExclH pixels.                                           *)
(***************************************************************************)
ExclW == 14

ExclH == 9

MaxShift == 3

ExclMasks ==
    {UnitPixels(ExclW, ExclH),
     {q \in UnitPixels(ExclW, ExclH) : (q[1] + q[2]) % 2 = 0},
     {}}

ExclRects ==
    {RectExcl(x, y, w, h) : x \in {0, 2}, y \in {0, 3}, w \in {0, 1, 10}, h \in {0, 1, 10}}

InitExcl ==
    /\ StartsAs(InitState)
    /\ steps = 0
    /\ fn_out = NoCall
    /\ \E m \in ExclMasks, e \in ExclRects, dx \in -MaxShift .. MaxShift, dy \in -MaxShift .. MaxShift :
         fn_in = [kind |-> "exclusion", mask |-> m, excl |-> e, dx |-> dx, dy |-> dy]

\* the loop over self.exclusions for one unit
SubtractExclusions ==
    /\ fn_in.kind = "exclusion"
    /\ fn_out = NoCall
    /\ fn_out' = [kind |-> "mask",
                  px |-> ApplyExclusions(fn_in.mask, <<fn_in.excl>>, fn_in.dx, fn_in.dy,
                                         ExclW, ExclH)]
    /\ UNCHANGED <<current_image_path, reference_image_path, reference_image_size,
                   fixed_img_rect, grid_rects, params, drawing_enabled, exclusion_mode,
                   drawing_enabled_before_exclusion, exclusions, excl_index,
                   exclusion_edit_active, exclusion_edit_shape, exclusion_edit_timer,
                   exclusion_ref_centroids, thumb_list, image_states, inspection_mode,
                   inspection_results, run_insp_btn, edit_btn, apply_btn_enabled,
                   defect_min_area, defect_mask_erode, defect_autoupdate_timer,
                   gauss_spin, seg_debounce_timer, seg_debounce_superseded,
                   current_row, overlay_mode, defect_method, crashed, ev, steps, fn_in>>

NextExcl == SubtractExclusions

SpecExcl == InitExcl /\ [][NextExcl]_vars

(***************************************************************************)
(* _clamp_exclusion_to_base_unit applied on its own                        *)
(***************************************************************************)
MaxUnitSize == 3

ClampExclusions ==
    {RectExcl(x, y, w, h) : x, y \in -1 .. MaxUnitSize + 1, w, h \in 0 .. MaxUnitSize + 1}
        \cup {CircleExcl(cx, cy, r) : cx, cy \in -1 .. MaxUnitSize + 1, r \in 0 .. MaxUnitSize + 1}

InitClamp ==
    /\ StartsAs(InitState)
    /\ steps = 0
    /\ fn_out = NoCall
    /\ \E bw, bh \in 1 .. MaxUnitSize, e \in ClampExclusions :
         fn_in = [kind |-> "clamp", bw |-> bw, bh |-> bh, excl |-> e]

\* the call, with a grid whose first unit has the size (bw, bh)
ClampExclusion ==
    /\ fn_in.kind = "clamp"
    /\ fn_out = NoCall
    /\ fn_out' = [kind |-> "clamped",
                  excl |-> ClampExclusionToBaseUnit(
                               [InitState EXCEPT !.grid_rects =
                                   <<[r |-> Rect(0, 0, fn_in.bw, fn_in.bh), idx |-> 0]>>],
                               fn_in.excl)]
    /\ UNCHANGED <<current_image_path, reference_image_path, reference_image_size,
                   fixed_img_rect, grid_rects, params, drawing_enabled, exclusion_mode,
                   drawing_enabled_before_exclusion, exclusions, excl_index,
                   exclusion_edit_active, exclusion_edit_shape, exclusion_edit_timer,
                   exclusion_ref_centroids, thumb_list, image_states, inspection_mode,
                   inspection_results, run_insp_btn, edit_btn, apply_btn_enabled,
                   defect_min_area, defect_mask_erode, defect_autoupdate_timer,
                   gauss_spin, seg_debounce_timer, seg_debounce_superseded,
                   current_row, overlay_mode, defect_method, crashed, ev, steps, fn_in>>

NextClamp == ClampExclusion

SpecClamp == InitClamp /\ [][NextClamp]_vars

(***************************************************************************)
(* The area filter of _detect_defects_on_pix applied on its own            *)
(***************************************************************************)
FilterW == 6

FilterH == 6

MaxMinArea == 17

\* the raster without its inner part: a frame one pixel thick
Frame(w, h) ==
    {p \in UnitPixels(w, h) : p[1] = 0 \/ p[2] = 0 \/ p[1] = w - 1 \/ p[2] = h - 1}

\* a ring with three corners cut, and a pixel beside it joined by one more
RingAndDot == (Frame(5, 5) \ {<<0, 0>>, <<4, 0>>}) \cup {<<5, 5>>}

FilterROIs ==
    {UnitPixels(5, 5), Frame(5, 5), RingAndDot,
     UnitPixels(5, 5) \ {<<2, 2>>}, UnitPixels(3, 3), {}}

\* candidate masks lie within the ROI: the opened residual or, with the edge
\* method, the Canny edges, and-ed with the ROI
FilterCandidates(roi) ==
    {roi \cap c : c \in {UnitPixels(FilterW, FilterH),
                         UnitPixels(FilterW, FilterH) \ {<<0, 0>>},
                         UnitPixels(FilterW, FilterH) \ {<<4, 4>>},
                         UnitPixels(2, 2),
                         UnitPixels(2, 2) \cup {<<4, 4>>},
                         UnitPixels(3, 3) \ {<<2, 2>>},
                         {<<0, 0>>, <<1, 0>>, <<0, 1>>, <<4, 0>>, <<4, 1>>, <<3, 0>>, <<0, 4>>},
                         {}}}

InitFilter ==
    /\ StartsAs(InitState)
    /\ steps = 0
    /\ fn_out = NoCall
    /\ \E roi \in FilterROIs, m1, m2 \in 0 .. MaxMinArea :
         \E cand \in FilterCandidates(roi) :
            /\ m1 <= m2
            /\ fn_in = [kind |-> "filter", cand |-> cand, roi |-> roi,
                        min_area1 |-> m1, min_area2 |-> m2]

\* the detector from the ROI on, run with min_area1 and with min_area2
FilterCall ==
    /\ fn_in.kind = "filter"
    /\ fn_out = NoCall
    /\ fn_out' = [kind |-> "filtered",
                  kept1 |-> IF fn_in.roi = {} THEN {}
                            ELSE FilterContours(fn_in.cand, fn_in.roi, fn_in.min_area1),
                  kept2 |-> IF fn_in.roi = {} THEN {}
                            ELSE FilterContours(fn_in.cand, fn_in.roi, fn_in.min_area2),
                  mask |-> DetectInROI(fn_in.cand, fn_in.roi, fn_in.min_area1,
                                       FilterW, FilterH)]
    /\ UNCHANGED <<current_image_path, reference_image_path, reference_image_size,
                   fixed_img_rect, grid_rects, params, drawing_enabled, exclusion_mode,
                   drawing_enabled_before_exclusion, exclusions, excl_index,
                   exclusion_edit_active, exclusion_edit_shape, exclusion_edit_timer,
                   exclusion_ref_centroids, thumb_list, image_states, inspection_mode,
                   inspection_results, run_insp_btn, edit_btn, apply_btn_enabled,
                   defect_min_area, defect_mask_erode, defect_autoupdate_timer,
                   gauss_spin, seg_debounce_timer, seg_debounce_superseded,
                   current_row, overlay_mode, defect_method, crashed, ev, steps, fn_in>>

NextFilter == FilterCall

SpecFilter == InitFilter /\ [][NextFilter]_vars

(***************************************************************************)
(* fill_internal_holes applied on its own                                  *)
(***************************************************************************)
FillW == 3

FillH == 4

\* how many pixels of a mask differ from an all-foreground or an
\* all-background raster
MaxFillPixels == 3

RECURSIVE SetsUpTo(_, _)
SetsUpTo(U, k) ==
    LET More(P) == P \cup {S \cup {p} : S \in P, p \in U}
    IN  IF k = 0 THEN {{}} ELSE More(SetsUpTo(U, k - 1))

\* foreground levels: any value above 0 is foreground
FillLevels == {1, 255}

FillShapes == {<<FillW, FillH>>, <<FillW, 1>>, <<1, FillH>>, <<0, FillH>>}

InitFill ==
    /\ StartsAs(InitState)
    /\ steps = 0
    /\ fn_out = NoCall
    /\ \E d \in FillShapes, g \in FillLevels, fg_few \in BOOLEAN :
         \E S \in SetsUpTo(UnitPixels(d[1], d[2]), MaxFillPixels) :
            fn_in = [kind |-> "fill", w |-> d[1], h |-> d[2],
                     mask |-> [p \in UnitPixels(d[1], d[2]) |->
                                  IF (p \in S) = fg_few THEN g ELSE 0]]

\* fill_internal_holes(mask), and fill_internal_holes of its result
FillCall ==
    /\ fn_in.kind = "fill"
    /\ fn_out = NoCall
    /\ fn_out' = [kind |-> "filled",
                  once  |-> FillInternalHolesOf(fn_in.mask, fn_in.w, fn_in.h),
                  twice |-> FillInternalHolesOf(
                                FillInternalHolesOf(fn_in.mask, fn_in.w, fn_in.h),
                                fn_in.w, fn_in.h)]
    /\ UNCHANGED <<current_image_path, reference_image_path, reference_image_size,
                   fixed_img_rect, grid_rects, params, drawing_enabled, exclusion_mode,
                   drawing_enabled_before_exclusion, exclusions, excl_index,
                   exclusion_edit_active, exclusion_edit_shape, exclusion_edit_timer,
                   exclusion_ref_centroids, thumb_list, image_states, inspection_mode,
                   inspection_results, run_insp_btn, edit_btn, apply_btn_enabled,
                   defect_min_area, defect_mask_erode, defect_autoupdate_timer,
                   gauss_spin, seg_debounce_timer, seg_debounce_superseded,
                   current_row, overlay_mode, defect_method, crashed, ev, steps, fn_in>>

NextFill == FillCall

SpecFill == InitFill /\ [][NextFill]_vars

(***************************************************************************)
(* segment_cell applied on its own, and the mask stored for the unit       *)
(***************************************************************************)
SegW == 3

SegH == 3

\* how many pixels of a gray crop differ from its background level
MaxGrayPixels == 2

SegShapes == {<<SegW, SegH>>, <<SegW, 1>>, <<1, SegH>>}

\* background level and level of the differing pixels
GrayLevelPairs == {<<0, 255>>, <<255, 0>>, <<100, 255>>, <<0, 100>>}

SegMethods == {"otsu", "adaptive"}

SegBlurs == {0, DefaultGaussBlur}

DefaultMorphKernel == 3

SegMorphKernels == {0, DefaultMorphKernel}

DefaultAdaptC == 10

SegExclusionLists == {<<>>, <<RectExcl(1, 0, 1, 2)>>}

InitSeg ==
    /\ StartsAs(InitState)
    /\ steps = 0
    /\ fn_out = NoCall
    /\ \E d \in SegShapes, g \in GrayLevelPairs, method \in SegMethods,
          blur \in SegBlurs, morph \in SegMorphKernels, excls \in SegExclusionLists :
         \E S \in SetsUpTo(UnitPixels(d[1], d[2]), MaxGrayPixels) :
            fn_in = [kind |-> "segment", w |-> d[1], h |-> d[2],
                     gray |-> [p \in UnitPixels(d[1], d[2]) |->
                                  IF p \in S THEN g[2] ELSE g[1]],
                     method |-> method, gaussian_blur |-> blur, morph_kernel |-> morph,
                     exclusions |-> excls]

\* segment_cell(gray, ...), then the exclusions and the conversion of
\* run_segmentation_all (no shift: dx = dy = 0)
SegmentCall ==
    /\ fn_in.kind = "segment"
    /\ fn_out = NoCall
    /\ \E t \in OtsuThresholds(BlurStep(fn_in.gray, fn_in.w, fn_in.h, fn_in.gaussian_blur),
                                fn_in.w, fn_in.h) :
         LET mask == SegmentCellOf(fn_in.gray, fn_in.w, fn_in.h, fn_in.method,
                                   DefaultAdaptC, fn_in.gaussian_blur, fn_in.morph_kernel, t)
         IN  fn_out' = [kind |-> "segmented", mask |-> mask,
                        stored |-> StoredMaskOf(mask, fn_in.w, fn_in.h,
                                                fn_in.exclusions, 0, 0)]
    /\ UNCHANGED <<current_image_path, reference_image_path, reference_image_size,
                   fixed_img_rect, grid_rects, params, drawing_enabled, exclusion_mode,
                   drawing_enabled_before_exclusion, exclusions, excl_index,
                   exclusion_edit_active, exclusion_edit_shape, exclusion_edit_timer,
                   exclusion_ref_centroids, thumb_list, image_states, inspection_mode,
                   inspection_results, run_insp_btn, edit_btn, apply_btn_enabled,
                   defect_min_area, defect_mask_erode, defect_autoupdate_timer,
                   gauss_spin, seg_debounce_timer, seg_debounce_superseded,
                   current_row, overlay_mode, defect_method, crashed, ev, steps, fn_in>>

NextSeg == SegmentCall

SpecSeg == InitSeg /\ [][NextSeg]_vars

(***************************************************************************)
(* Grid generation: C1, C2, C3 (checked under SpecGrid)                    *)
(***************************************************************************)
ScenarioAParams == GridParams(2, 1, 1, 1, 0, 0, 0, 0)

ScenarioABase == Rect(10, 10, 100, 80)

\* the grid position the nested counters (by, uy, bx, ux) stand for
CounterIndex(p, byi, uyi, bxi, uxi) ==
    ((byi * p.units_y + uyi) * p.blocks_x + bxi) * p.units_x + uxi

\* C1: after a regeneration with base unit (x0, y0, w, h), the unit of block
\* (bx, by) and in-block position (ux, uy) is the rectangle at
\* x0 + bx*(units_x*w + (units_x-1)*unit_space_x + block_space_x) + ux*(w + unit_space_x),
\* y0 + by*(units_y*h + (units_y-1)*unit_space_y + block_space_y) + uy*(h + unit_space_y)
\* of size (w, h); with base (10,10,100,80), 2 x 1 units, 1 x 1 blocks and no
\* spacing the grid is (10,10,100,80) index 0 and (110,10,100,80) index 1.
C1_UnitPositions ==
    ev.regen =>
        /\ \A byi \in Range(params.blocks_y), uyi \in Range(params.units_y),
              bxi \in Range(params.blocks_x), uxi \in Range(params.units_x) :
              LET i == CounterIndex(params, byi, uyi, bxi, uxi)
                  b == fixed_img_rect
              IN  /\ i < Len(grid_rects)
                  /\ grid_rects[i + 1].r =
                        Rect(b.x + bxi * (params.units_x * b.w
                                          + (params.units_x - 1) * params.unit_space_x
                                          + params.block_space_x)
                                 + uxi * (b.w + params.unit_space_x),
                             b.y + byi * (params.units_y * b.h
                                          + (params.units_y - 1) * params.unit_space_y
                                          + params.block_space_y)
                                 + uyi * (b.h + params.unit_space_y),
                             b.w, b.h)
        /\ (fixed_img_rect = ScenarioABase /\ params = ScenarioAParams) =>
              grid_rects = <<[r |-> Rect(10, 10, 100, 80), idx |-> 0],
                             [r |-> Rect(110, 10, 100, 80), idx |-> 1]>>

\* a regeneration with two blocks of two units per row and both x spacings set
C1_Witness ==
    /\ ev.regen
    /\ fixed_img_rect = ScenarioABase
    /\ params = GridParams(2, 1, 2, 1, 3, 0, 3, 0)
    /\ Len(grid_rects) = 4
    /\ grid_rects[3].r = Rect(216, 10, 100, 80)

\* C2: a regeneration yields exactly units_x * units_y * blocks_x * blocks_y
\* units, none when any of the four counts is 0, and raises no error.
C2_Cardinality ==
    ev.regen =>
        /\ Len(grid_rects) = params.units_x * params.units_y * params.blocks_x * params.blocks_y
        /\ (0 \in {params.units_x, params.units_y, params.blocks_x, params.blocks_y}
                => grid_rects = <<>>)
        /\ Len(thumb_list) = Len(grid_rects)
        /\ ~ev.exc
        /\ ~crashed

\* a regeneration with all four counts at 2, and so 16 units
C2_Witness ==
    /\ ev.regen
    /\ params.units_x = 2 /\ params.units_y = 2 /\ params.blocks_x = 2 /\ params.blocks_y = 2
    /\ Len(grid_rects) = 16

\* the grid as a function of the base unit and the eight parameters alone:
\* position i holds index i and the unit of the counters i decomposes into
ExpectedGrid(b, p) ==
    [i \in 1 .. p.units_x * p.units_y * p.blocks_x * p.blocks_y |->
        LET uxi == (i - 1) % p.units_x
            bxi == ((i - 1) \div p.units_x) % p.blocks_x
            uyi == ((i - 1) \div (p.units_x * p.blocks_x)) % p.units_y
            byi == (i - 1) \div (p.units_x * p.blocks_x * p.units_y)
        IN  [r |-> Rect(b.x + bxi * (p.units_x * b.w + (p.units_x - 1) * p.unit_space_x
                                     + p.block_space_x) + uxi * (b.w + p.unit_space_x),
                        b.y + byi * (p.units_y * b.h + (p.units_y - 1) * p.unit_space_y
                                     + p.block_space_y) + uyi * (b.h + p.unit_space_y),
                        b.w, b.h),
             idx |-> i - 1]]

\* C3: the regenerated grid is determined by the base unit and the eight
\* parameters alone (whatever the previous grid and the exclusions were); the
\* unit of counters (by, uy, bx, ux) has index
\* ((by*units_y + uy)*blocks_x + bx)*units_x + ux and stands at that position.
C3_DeterministicOrder ==
    ev.regen => grid_rects = ExpectedGrid(fixed_img_rect, params)

\* a regeneration over a previous, different grid, with exclusions present and
\* every counter taking two values
C3_Witness ==
    /\ ev.regen
    /\ ev.op = "set_grid_param"
    /\ exclusions # <<>>
    /\ params.units_x = 2 /\ params.units_y = 2 /\ params.blocks_x = 2 /\ params.blocks_y = 2
    /\ params.unit_space_x = 3 /\ params.block_space_y = 3
    /\ grid_rects[7].idx = 6
    /\ grid_rects[7].r.x > fixed_img_rect.x
    /\ grid_rects[7].r.y > fixed_img_rect.y

(***************************************************************************)
(* Exclusion subtraction: C5 (checked under SpecExcl)                      *)
(***************************************************************************)
\* C5: a rect exclusion {x, y, w, h} under shift (dx, dy) zeroes exactly the
\* mask pixels with x+dx <= px < x+dx+w and y+dy <= py < y+dy+h that lie inside
\* the mask, and leaves every other pixel as it was; {0, 0, 10, 10} under
\* shift (3, -2) zeroes x in [3, 13), y in [0, 8).
C5_ShiftedRectClipped ==
    fn_out.kind = "mask" =>
        /\ fn_out.px =
              {q \in fn_in.mask :
                  ~(/\ fn_in.excl.x + fn_in.dx <= q[1]
                    /\ q[1] < fn_in.excl.x + fn_in.dx + fn_in.excl.w
                    /\ fn_in.excl.y + fn_in.dy <= q[2]
                    /\ q[2] < fn_in.excl.y + fn_in.dy + fn_in.excl.h)}
        /\ (fn_in.excl = RectExcl(0, 0, 10, 10) /\ fn_in.dx = 3 /\ fn_in.dy = -2) =>
              fn_in.mask \ fn_out.px =
                  {q \in fn_in.mask : 3 <= q[1] /\ q[1] < 13 /\ 0 <= q[2] /\ q[2] < 8}

\* the example of C5 on a full mask: 13 - 3 columns of 8 rows are zeroed
C5_Witness ==
    /\ fn_out.kind = "mask"
    /\ fn_in.excl = RectExcl(0, 0, 10, 10)
    /\ fn_in.dx = 3
    /\ fn_in.dy = -2
    /\ fn_in.mask = UnitPixels(ExclW, ExclH)
    /\ Cardinality(fn_in.mask \ fn_out.px) = 80

(***************************************************************************)
(* Inspection, alignment and the reference-centroid map: C4, C6 .. C10     *)
(* (checked under Spec)                                                    *)
(***************************************************************************)
\* C4: after a completed inspection the result mapping has an entry exactly for
\* the units that have a segmentation mask, the entry of a unit being NG when
\* its defect mask exists with an area of at least min_area and OK otherwise.
C4_ResultPerUnit ==
    ev.insp = "done" =>
        \A i \in 1 .. Len(thumb_list) :
            LET item == thumb_list[i]
            IN  IF item.seg.has
                THEN /\ item.text \in Keys(inspection_results)
                     /\ Get(inspection_results, item.text)
                            = (item.def.has /\ MaskArea(item.def) >= defect_min_area)
                ELSE item.text \notin Keys(inspection_results)

\* the pre-exclusion mask of the unit at position i of the current image
PreMask(i) ==
    IF Degenerate(grid_rects[i + 1].r) THEN {}
    ELSE SegmentCell(current_image_path, grid_rects[i + 1].r)

\* C6: in a segmentation run on a non-reference image, every unit without a
\* reference centroid or without foreground gets shift (0, 0), has the
\* exclusions subtracted at their nominal position, and no error is raised.
C6_FallbackShift ==
    (ev.seg \in {"done", "aborted"} /\ current_image_path # reference_image_path) =>
        \A i \in 0 .. Len(grid_rects) - 1 :
            (\/ ReferenceCentroid(State, RefSegBins(State), i).n = 0
             \/ LargestComponentCentroid(PreMask(i)).n = 0) =>
                /\ ev.seg = "done"
                /\ i < Len(ev.units)
                /\ ev.units[i + 1].dx = 0
                /\ ev.units[i + 1].dy = 0
                /\ thumb_list[i + 1].seg =
                      Mask(ApplyExclusions(PreMask(i), exclusions, 0, 0,
                                           grid_rects[i + 1].r.w, grid_rects[i + 1].r.h),
                           grid_rects[i + 1].r.w, grid_rects[i + 1].r.h)

\* C7: a segmentation run on a non-reference image, completed or not, leaves
\* the reference-centroid map as it was.
C7_NonReferenceKeepsMap ==
    [][(ev'.seg \in {"done", "aborted"} /\ current_image_path' # reference_image_path')
          => exclusion_ref_centroids' = exclusion_ref_centroids]_vars

\* a completed run over a non-reference image whose units have foreground,
\* the map holding the centroids of the reference
C7_Witness ==
    /\ ev.seg = "done"
    /\ current_image_path # reference_image_path
    /\ exclusion_ref_centroids # {}
    /\ \E k \in 1 .. Len(ev.units) : ev.units[k].pre # {}

\* C8: after every segmentation run on the reference image the map holds
\* exactly one entry for each unit whose pre-exclusion mask is non-empty.
C8_MapAfterReferenceRun ==
    (ev.seg \in {"done", "aborted"} /\ current_image_path = reference_image_path) =>
        /\ Keys(exclusion_ref_centroids) = {i \in 0 .. Len(grid_rects) - 1 : PreMask(i) # {}}
        /\ \A e \in exclusion_ref_centroids :
              e.v = LargestComponentCentroid(PreMask(e.k))

\* C9: after any regeneration of the grid the reference-centroid map is empty.
C9_RegenerationEmptiesMap ==
    ev.regen => exclusion_ref_centroids = {}

\* a regeneration in a state whose map held centroids
C9_Witness ==
    /\ ev.regen
    /\ ev.had_centroids
    /\ exclusion_ref_centroids = {}

\* C10: while a non-reference image is shown no operation changes the unit
\* rectangles, the base unit or the exclusion list.
C10_NonReferenceReadOnly ==
    [][(/\ reference_image_path # ""
        /\ current_image_path # ""
        /\ current_image_path # reference_image_path)
          => /\ grid_rects' = grid_rects
             /\ fixed_img_rect' = fixed_img_rect
             /\ exclusions' = exclusions]_vars

(***************************************************************************)
(* The life of the defect masks: the handlers that compute, use or         *)
(* invalidate them, started with an image loaded and a grid imported       *)
(***************************************************************************)
InitDefect ==
    \E doc \in Docs :
        /\ StartsAs(ImportGrid(
                       Begin(LoadImage(Begin(InitState, "load_image", [path |-> "A"]), "A"),
                             "import_grid", [doc |-> doc]),
                       doc))
        /\ steps = 0
        /\ fn_in = NoCall
        /\ fn_out = NoCall

NextDefect ==
    \/ DoCellClick
    \/ DoAddExclusion
    \/ DoMouseDrag
    \/ DoRunSegmentation
    \/ DoInspectionToggled
    \/ DoSetDefectParam
    \/ DoDefectAutoupdateTimer

SpecDefect == InitDefect /\ [][NextDefect]_vars

(***************************************************************************)
(* Export and import of the grid document. fn_out stands for the file      *)
(* export_grid wrote: the document, and beside it the grid state that was  *)
(* exported.                                                               *)
(***************************************************************************)
InitGridIO ==
    /\ StartsAs(LoadImage(Begin(InitState, "load_image", [path |-> "A"]), "A"))
    /\ steps = 0
    /\ fn_in = NoCall
    /\ fn_out = NoCall

\* export_btn: nothing is written without a grid
DoExportGrid ==
    /\ Live
    /\ grid_rects # <<>>
    /\ fn_out' = [kind |-> "grid_file", doc |-> ExportGrid(State),
                  grid_rects |-> grid_rects, params |-> params,
                  fixed_img_rect |-> fixed_img_rect, exclusions |-> exclusions,
                  exclusion_ref_centroids |-> exclusion_ref_centroids]
    /\ ev' = Event("export_grid", [none |-> TRUE])
    /\ steps' = steps + 1
    /\ UNCHANGED <<current_image_path, reference_image_path, reference_image_size,
                   fixed_img_rect, grid_rects, params, drawing_enabled, exclusion_mode,
                   drawing_enabled_before_exclusion, exclusions, excl_index,
                   exclusion_edit_active, exclusion_edit_shape, exclusion_edit_timer,
                   exclusion_ref_centroids, thumb_list, image_states, inspection_mode,
                   inspection_results, run_insp_btn, edit_btn, apply_btn_enabled,
                   defect_min_area, defect_mask_erode, defect_autoupdate_timer,
                   gauss_spin, seg_debounce_timer, seg_debounce_superseded,
                   current_row, overlay_mode, defect_method, crashed, fn_in>>

\* import_btn with the file export_grid wrote
DoImportExported ==
    /\ Live
    /\ fn_out.kind = "grid_file"
    /\ current_image_path # ""
    /\ Commit(ImportGrid(Begin(State, "import_exported", [doc |-> fn_out.doc]), fn_out.doc))

NextGridIO ==
    \/ DoLoadImage
    \/ DoMouseDrag
    \/ DoSetGridParam
    \/ DoApplyIndexing
    \/ DoRunSegmentation
    \/ DoImportGrid
    \/ DoExportGrid
    \/ DoImportExported

SpecGridIO == InitGridIO /\ [][NextGridIO]_vars

(***************************************************************************)
(* Switching images, debouncing, batches and inspection: C11 .. C18        *)
(* (checked under Spec; C16 under SpecDefect)                              *)
(***************************************************************************)
\* C11: while a grid or a base unit exists, an attempt to switch to an image
\* whose size differs from the reference size is refused: the current image
\* (and so its raster), the masks of the units on display and the inspection
\* results on display stay those of the image that was current.
C11_SizeMismatchRefused ==
    [][(/\ ev'.op = "load_image"
        /\ ev'.arg.path \in Readable
        /\ reference_image_size # <<>>
        /\ ImageSize(ev'.arg.path) # reference_image_size
        /\ (grid_rects # <<>> \/ fixed_img_rect # NoRect))
          => /\ current_image_path' = current_image_path
             /\ thumb_list' = thumb_list
             /\ inspection_results' = inspection_results
             /\ inspection_mode' = inspection_mode]_vars

\* the smaller image D was chosen while segmented units of another image were
\* on display, and they still are
C11_Witness ==
    /\ ev.op = "load_image"
    /\ ev.arg.path = "D"
    /\ current_image_path \in {"A", "B"}
    /\ \E i \in 1 .. Len(thumb_list) : thumb_list[i].seg.has

\* C12: on every switch of the current image from one image to another, the
\* masks and inspection results the first image has at that moment are what
\* its ImageState holds afterwards, and no step touches the ImageState of an
\* image that is not the current one before or after the step.
C12_SnapshotBeforeRestore ==
    [][/\ (current_image_path # "" /\ current_image_path' # current_image_path)
            => image_states'[current_image_path] =
                 [present |-> TRUE,
                  seg |-> [i \in 1 .. Len(thumb_list) |-> thumb_list[i].seg],
                  def |-> [i \in 1 .. Len(thumb_list) |-> thumb_list[i].def],
                  inspection |-> inspection_results]
       /\ \A q \in DOMAIN image_states :
            (q # current_image_path /\ q # current_image_path')
                => image_states'[q] = image_states[q]]_vars

\* image B has just replaced image A, whose segmentation masks, defect masks
\* and inspection results are kept in A's ImageState
C12_Witness ==
    /\ ev.op = "load_image"
    /\ current_image_path = "B"
    /\ image_states["A"].present
    /\ image_states["A"].inspection # {}
    /\ \E i \in 1 .. Len(image_states["A"].seg) : image_states["A"].seg[i].has
    /\ \E i \in 1 .. Len(image_states["A"].def) : image_states["A"].def[i].has

\* C13: changes of the defect parameters are debounced: every change leaves
\* exactly one defect re-run pending (a newer change replaces the pending
\* one), the re-run happens only while one is pending and uses it up, and
\* never is more than one re-run pending.
C13_DefectDebounce ==
    [][/\ defect_autoupdate_timer' <= 1
       /\ ev'.op \in {"set_min_area", "set_mask_erode"} => defect_autoupdate_timer' = 1
       /\ ev'.op = "defect_autoupdate_timer"
            => defect_autoupdate_timer = 1 /\ defect_autoupdate_timer' = 0
       /\ (defect_autoupdate_timer' # defect_autoupdate_timer)
            => ev'.op \in {"set_min_area", "set_mask_erode", "defect_autoupdate_timer"}]_vars

\* with units on display, a burst of two changes was followed by the single
\* re-run: the fifth step, after the two steps that produced the units and
\* the two changes
C13_Witness ==
    /\ steps = 5
    /\ ev.op = "defect_autoupdate_timer"
    /\ defect_autoupdate_timer = 0
    /\ defect_min_area # DefaultMinArea
    /\ defect_mask_erode # DefaultMaskErode
    /\ thumb_list # <<>>

\* C14: in every reachable state a change of a segmentation parameter leaves
\* exactly one segmentation re-run pending, a re-run by the debounce happens
\* only while one is pending and uses it up, and never is more than one
\* re-run pending.  (Stated for the states with units on display, where a
\* re-run has something to segment.)
C14_SegDebounce ==
    [][/\ Max2(0, seg_debounce_timer') + seg_debounce_superseded' <= 1
       /\ (ev'.op = "set_gauss_blur" /\ thumb_list # <<>>)
            => Max2(0, seg_debounce_timer') + seg_debounce_superseded' = 1
       /\ ev'.op = "seg_debounce_timer"
            => Max2(0, seg_debounce_timer') + seg_debounce_superseded' = 0]_vars

\* C15: a failure on one unit never aborts a batch: whenever segmentation of
\* all units has run, it went through every unit of the grid (a failing unit
\* counted as processed, with an absent mask), and no failure on a unit ends
\* an inspection run or a defect re-run.
C15_BatchNeverAborts ==
    /\ ev.seg # "aborted"
    /\ ev.seg = "done" => Len(ev.units) = Len(grid_rects)
    /\ ~ev.exc

\* the units on display, with their masks, in the state after a step
HasSegAfter == \E i \in 1 .. Len(thumb_list') : thumb_list'[i].seg.has

\* C17: when Run inspection is switched on, detection runs only on segmented
\* units; with units but no segmentation mask on display the units are
\* segmented first, and if then still no unit has a mask the run fails as
\* unavailable: the button is released, inspection mode is not entered, and
\* the inspection results and the defect masks are left as they were.
C17_InspectionNeedsSegmentation ==
    [][(ev'.op = "inspection_toggled" /\ ev'.arg.checked /\ thumb_list # <<>>) =>
          /\ Len(thumb_list') = Len(thumb_list)
          /\ \A i \in 1 .. Len(thumb_list) :
                thumb_list'[i].def # thumb_list[i].def => thumb_list'[i].seg.has
          /\ inspection_mode' => HasSegAfter
          /\ HasSegAfter \/ ev'.seg # "none"
          /\ ~HasSegAfter =>
                /\ ~run_insp_btn' /\ ~crashed'
                /\ ~inspection_mode'
                /\ inspection_results' = inspection_results
                /\ \A i \in 1 .. Len(thumb_list) : thumb_list'[i].def = thumb_list[i].def]_vars

\* the region detection looks at in unit i of the display: empty when the
\* segmentation mask is empty or nothing of it is left after the erosion
UnitROI(i) ==
    LET c == PixRect(current_image_path, grid_rects[i].r)
    IN  DetectionROI(ScaleMask(thumb_list[i].seg, c.w, c.h), c.w, c.h, defect_mask_erode)

\* units of the display that are segmented, lie in the image and carry an
\* index of their own
InspectedUnits ==
    {i \in 1 .. Len(thumb_list) :
        /\ i <= Len(grid_rects)
        /\ thumb_list[i].seg.has
        /\ ~Degenerate(PixRect(current_image_path, grid_rects[i].r))
        /\ \A j \in 1 .. Len(thumb_list) : thumb_list[j].text = thumb_list[i].text => j = i}

\* C18: in the results of an inspection run a unit on which detection could
\* not be performed (its region of interest is empty) never has the result
\* entry of a unit on which detection ran and found no defect.
C18_DegenerateDistinguishable ==
    (ev.insp = "done" /\ ~crashed) =>
        \A i, j \in InspectedUnits :
            (/\ UnitROI(i) = {}
             /\ UnitROI(j) # {}
             /\ ~thumb_list[j].def.has
             /\ thumb_list[j].text \in Keys(inspection_results))
                => \/ thumb_list[i].text \notin Keys(inspection_results)
                   \/ Get(inspection_results, thumb_list[i].text)
                        # Get(inspection_results, thumb_list[j].text)

\* C16: a stored DefectMask is never stale: the DefectMask stored for a unit
\* is the one detection yields from the unit's current segmentation mask and
\* the current detection parameters or, while the debounced re-run of a
\* parameter change is still pending, the parameters of before the change.
C16_DefectMaskNeverStale ==
    ~crashed =>
        \A i \in 1 .. Len(thumb_list) :
            (thumb_list[i].def.has /\ i <= Len(grid_rects)) =>
                /\ thumb_list[i].seg.has
                /\ \E ma \in MinAreaDomain, er \in MaskErodeDomain :
                    /\ defect_autoupdate_timer = 0
                         => ma = defect_min_area /\ er = defect_mask_erode
                    /\ thumb_list[i].def =
                         DetectDefectsOnPix(current_image_path, grid_rects[i].r,
                                            thumb_list[i].seg, ma, er, defect_method).mask

(***************************************************************************)
(* Exclusion geometry: C19 (checked under SpecClamp), C20                  *)
(***************************************************************************)
\* exclusion e lies within [0, w) x [0, h)
WithinUnit(e, w, h) ==
    IF e.shape = "rect"
    THEN /\ 0 <= e.x /\ 0 <= e.y
         /\ e.x + e.w <= w /\ e.y + e.h <= h
    ELSE /\ e.cx - e.r >= 0 /\ e.cy - e.r >= 0
         /\ e.cx + e.r <= w - 1 /\ e.cy + e.r <= h - 1

\* C19: for every rect or circle exclusion and every unit size w, h >= 1 the
\* geometry returned by clamping lies entirely within [0, w) x [0, h).
C19_ClampedWithinUnit ==
    fn_out.kind = "clamped" => WithinUnit(fn_out.excl, fn_in.bw, fn_in.bh)

\* C20: in every reachable state every exclusion of the exclusion list lies
\* within [0, unit_w) x [0, unit_h) of the unit (the first rectangle of the grid).
C20_ExclusionsWithinUnit ==
    (grid_rects # <<>> /\ ~Degenerate(grid_rects[1].r)) =>
        \A i \in 1 .. Len(exclusions) :
            WithinUnit(exclusions[i], grid_rects[1].r.w, grid_rects[1].r.h)

(***************************************************************************)
(* The detector's area filter: C21, C22 (checked under SpecFilter)         *)
(***************************************************************************)
\* C21: for one and the same candidate mask and ROI, the contours that survive
\* the area filter under min_area2 are no more numerous than under min_area1,
\* for all min_area1 <= min_area2.
C21_AreaMonotone ==
    fn_out.kind = "filtered" => Cardinality(fn_out.kept2) <= Cardinality(fn_out.kept1)

\* twice the contour areas are compared, so that half areas stay integers
C22_Wanted(k, min_area, cap100) ==
    /\ ContourArea2(k) >= 2 * min_area
    /\ \/ ContourArea2(k) <= 2 * min_area
       \/ 100 * ContourArea2(k) <= 2 * cap100

C22_Result(cap100) ==
    LET wanted == {k \in ExternalContours(fn_in.cand) :
                      C22_Wanted(k, fn_in.min_area1, cap100)}
    IN  /\ fn_in.roi # {} => fn_out.kept1 = wanted
        /\ (fn_in.roi = {} \/ wanted = {}) => fn_out.mask = NoMask
        /\ (fn_in.roi # {} /\ wanted # {}) =>
              /\ fn_out.mask.has
              /\ fn_out.mask.px = UNION {HolesFilled(k) : k \in wanted}

\* C22 as stated: a contour is kept if and only if
\* min_area <= area <= max(min_area, 0.98 * roi_area); the result is absent when
\* no contour is kept or the ROI is empty, otherwise exactly the kept contours
\* filled solid.
C22_KeepRuleAsStated ==
    fn_out.kind = "filtered" => C22_Result(98 * Cardinality(fn_in.roi))

\* C22, amended: a contour is kept if and only if
\* min_area <= area <= max(min_area, floor(0.98 * roi_area)), the cap being
\* truncated to a whole number of pixels; the result is absent when no contour is
\* kept or the ROI is empty, otherwise exactly the kept contours filled solid.
C22_KeepRule ==
    fn_out.kind = "filtered" =>
        C22_Result(100 * ((98 * Cardinality(fn_in.roi)) \div 100))

\* a contour between the truncated cap and 0.98 * roi_area is dropped while
\* another contour is kept
C22_Witness ==
    /\ fn_out.kind = "filtered"
    /\ fn_out.mask.has
    /\ \E k \in ExternalContours(fn_in.cand) :
          /\ k \notin fn_out.kept1
          /\ ContourArea2(k) > 2 * fn_in.min_area1
          /\ 100 * ContourArea2(k) <= 2 * 98 * Cardinality(fn_in.roi)

(***************************************************************************)
(* Hole filling: C23, C24 (checked under SpecFill)                         *)
(***************************************************************************)
\* the 0-valued pixels that a path of 0-valued pixels, going from a pixel to one
\* beside, above or below it, joins to p
C23_ZeroRegion(p) ==
    Reach({q \in UnitPixels(fn_in.w, fn_in.h) : fn_in.mask[q] = 0}, {p}, 4)

C23_Enclosed(p) ==
    /\ fn_in.mask[p] = 0
    /\ \A q \in C23_ZeroRegion(p) :
          q[1] \notin {0, fn_in.w - 1} /\ q[2] \notin {0, fn_in.h - 1}

\* C23: fill_internal_holes sets a pixel to 255 exactly when the pixel is
\* foreground (> 0) in the input or lies in a 0-valued region from which no path
\* of 0-valued pixels reaches the raster border; every other pixel is 0, so the
\* 0-valued regions touching the border stay 0 (also when the corner (0,0) is
\* foreground) and no foreground pixel is cleared.
C23_HolesFilled ==
    fn_out.kind = "filled" =>
        \A p \in UnitPixels(fn_in.w, fn_in.h) :
            /\ fn_out.once[p] \in {0, 255}
            /\ fn_out.once[p] = 255 <=> (fn_in.mask[p] > 0 \/ C23_Enclosed(p))

\* the corner (0,0) is foreground at a level below 255, a 0-valued region touches
\* the border and stays 0, and a hole is filled
C23_Witness ==
    /\ fn_out.kind = "filled"
    /\ fn_in.w = FillW /\ fn_in.h = FillH
    /\ fn_in.mask[<<0, 0>>] = 1
    /\ \E p \in UnitPixels(fn_in.w, fn_in.h) : fn_in.mask[p] = 0 /\ fn_out.once[p] = 0
    /\ \E p \in UnitPixels(fn_in.w, fn_in.h) : fn_in.mask[p] = 0 /\ fn_out.once[p] = 255

\* C24: hole filling is idempotent: fill_internal_holes(fill_internal_holes(m))
\* equals fill_internal_holes(m) for every 2D mask m.
C24_Idempotent ==
    fn_out.kind = "filled" => fn_out.twice = fn_out.once

\* a mask with a hole: the first filling changes it, the second one nothing
C24_Witness ==
    /\ fn_out.kind = "filled"
    /\ \E p \in UnitPixels(fn_in.w, fn_in.h) : fn_in.mask[p] = 0 /\ fn_out.once[p] = 255
    /\ \E p \in UnitPixels(fn_in.w, fn_in.h) : fn_out.once[p] = 0
    /\ fn_out.twice = fn_out.once

(***************************************************************************)
(* The Segmenter's output: C25, C26 (checked under SpecSeg)                *)
(***************************************************************************)
\* C25: for every gray input and every combination of method and parameters the
\* output mask of segment_cell has the shape of the input and every pixel value
\* is exactly 0 or 255, and so has the per-unit mask stored after the exclusions
\* are subtracted.
C25_MaskShapeAndValues ==
    fn_out.kind = "segmented" =>
        /\ DOMAIN fn_out.mask = DOMAIN fn_in.gray
        /\ \A p \in DOMAIN fn_out.mask : fn_out.mask[p] \in {0, 255}
        /\ fn_out.stored.w = fn_in.w /\ fn_out.stored.h = fn_in.h
        /\ DOMAIN fn_out.stored.px = DOMAIN fn_in.gray
        /\ \A p \in DOMAIN fn_out.stored.px : fn_out.stored.px[p] \in {0, 255}

\* a crop with gray values between 0 and 255, blurred, whose mask has foreground
\* and background, and an exclusion that removes foreground
C25_Witness ==
    /\ fn_out.kind = "segmented"
    /\ fn_in.gaussian_blur > 0
    /\ \E p \in DOMAIN fn_in.gray : fn_in.gray[p] \notin {0, 255}
    /\ \E p \in DOMAIN fn_out.mask : fn_out.mask[p] = 0
    /\ \E p \in DOMAIN fn_out.mask : fn_out.mask[p] = 255 /\ fn_out.stored.px[p] = 0

C26_BlackOtsu ==
    /\ fn_out.kind = "segmented"
    /\ fn_in.method = "otsu"
    /\ \A p \in DOMAIN fn_in.gray : fn_in.gray[p] = 0

\* C26 as stated: segmenting a fully black gray crop (every pixel 0) with the
\* Otsu method yields a mask that is all zero after hole-fill.
C26_BlackCropAllZero ==
    C26_BlackOtsu => \A p \in DOMAIN fn_out.mask : fn_out.mask[p] = 0

\* C26, amended: segmenting a fully black gray crop with the Otsu method yields a
\* mask that is all 255 after hole-fill: the threshold is 0, no pixel lies above
\* it, so every pixel is foreground and there is no hole to fill.
C26_BlackCropAllForeground ==
    C26_BlackOtsu => \A p \in DOMAIN fn_out.mask : fn_out.mask[p] = 255

C26_Witness ==
    /\ C26_BlackOtsu
    /\ fn_in.w = SegW /\ fn_in.h = SegH
    /\ fn_in.gaussian_blur > 0 /\ fn_in.morph_kernel > 0

(***************************************************************************)
(* The grid document: C27 (checked under SpecGridIO)                       *)
(***************************************************************************)
\* C27: importing a document written by export_grid, from any state in which an
\* image is loaded, restores exactly the exported unit rectangles with their
\* indices, the grid parameters, the base unit (when one was exported), the
\* exclusion list and the reference centroids.
C27_ExportReversible ==
    ev.op = "import_exported" =>
        /\ grid_rects = fn_out.grid_rects
        /\ params = fn_out.params
        /\ RectTruthy(fn_out.fixed_img_rect) => fixed_img_rect = fn_out.fixed_img_rect
        /\ exclusions = fn_out.exclusions
        /\ exclusion_ref_centroids = fn_out.exclusion_ref_centroids

\* C28: in every reachable state no two unit rectangles of the grid have the same
\* index, whether the grid was generated from parameters or imported from a
\* document, and the rectangles have the same indices after export followed by
\* re-import.
C28_IndicesUnique ==
    /\ \A i, j \in 1 .. Len(grid_rects) : i # j => grid_rects[i].idx # grid_rects[j].idx
    /\ ev.op = "import_exported" =>
          {<<g.r, g.idx>> : g \in {grid_rects[i] : i \in 1 .. Len(grid_rects)}}
              = {<<g.r, g.idx>> : g \in {fn_out.grid_rects[i] : i \in 1 .. Len(fn_out.grid_rects)}}

\* C29: importing a legacy array-only document (a bare list of boxes, no
\* metadata) is accepted, and when the boxes carry no index the imported grid has
\* the boxes in document order with the indices 0, 1, ..., n-1.
C29_LegacyImport ==
    (/\ ev.op = "import_grid"
     /\ ev.arg.doc.kind = "list"
     /\ \A i \in 1 .. Len(ev.arg.doc.boxes) : ev.arg.doc.boxes[i].index = -1)
    => /\ Len(grid_rects) = Len(ev.arg.doc.boxes)
       /\ \A i \in 1 .. Len(grid_rects) :
             /\ grid_rects[i].idx = i - 1
             /\ grid_rects[i].r = Rect(ev.arg.doc.boxes[i].x, ev.arg.doc.boxes[i].y,
                                       ev.arg.doc.boxes[i].w, ev.arg.doc.boxes[i].h)
       /\ Len(thumb_list) = Len(grid_rects)

\* a legacy list is imported over a grid that was generated from a base unit
C29_Witness ==
    /\ ev.op = "import_grid"
    /\ ev.arg.doc.kind = "list"
    /\ Len(ev.arg.doc.boxes) = 2
    /\ Len(grid_rects) = 2
    /\ RectTruthy(fixed_img_rect)

(***************************************************************************)
(* The reference image: C30 (checked under Spec)                           *)
(***************************************************************************)
\* C30: from the first image load onwards exactly one image is designated
\* reference (the reference path names an image, and an image on display implies
\* a reference), and the designation never changes afterwards, whatever images
\* are later opened, dropped or switched to.
C30_ReferenceFixed ==
    [][/\ ev'.op = "load_image" => reference_image_path' \in ImagePaths
       /\ current_image_path' # "" => reference_image_path' \in ImagePaths
       /\ reference_image_path # "" => reference_image_path' = reference_image_path]_vars

\* another image, of another size, is on display while A is still the reference
C30_Witness ==
    /\ ev.op = "load_image"
    /\ reference_image_path = "A"
    /\ current_image_path = "D"
    /\ image_states["B"].present

(***************************************************************************)
(* Block spacing with a single block: C31 (checked under SpecGrid)         *)
(***************************************************************************)
\* a regeneration of a non-empty grid with one block in each direction and a
\* non-zero block spacing
C31_SingleBlock ==
    /\ ev.regen
    /\ grid_rects # <<>>
    /\ params.blocks_x = 1 /\ params.blocks_y = 1
    /\ params.block_space_x # 0 \/ params.block_space_y # 0

C31_GridWithoutBlockSpace ==
    GenerateGrid(fixed_img_rect, [params EXCEPT !.block_space_x = 0, !.block_space_y = 0])

\* C31 as stated: with a single block (blocks_x = blocks_y = 1) a non-zero
\* block_space_x or block_space_y changes the generated unit positions compared
\* with block spacing 0.
C31_BlockSpaceApplies ==
    C31_SingleBlock => grid_rects # C31_GridWithoutBlockSpace

\* C31, amended: with a single block (blocks_x = blocks_y = 1) block spacing has
\* no effect: the block_space terms are multiplied by the block counters, which
\* are 0 throughout, so the generated units are the same as with block spacing 0.
C31_BlockSpaceNoEffect ==
    C31_SingleBlock => grid_rects = C31_GridWithoutBlockSpace

\* one block of 2 x 2 units, both block spacings set
C31_Witness ==
    /\ C31_SingleBlock
    /\ params.block_space_x = 3 /\ params.block_space_y = 3
    /\ params.units_x = 2 /\ params.units_y = 2
    /\ Len(grid_rects) = 4

(***************************************************************************)
(* The edit lock, failed loads and refused requests:                       *)
(* C32 .. C34 (checked under Spec)                                         *)
(***************************************************************************)
\* C32: adding an exclusion never permanently unlocks base-unit editing: the
\* value drawing_enabled had when exclusion mode was entered is stored, the
\* stored value is kept for as long as exclusion mode lasts (whatever further
\* add_exclusion requests are issued), and the mouse release that completes the
\* drawing puts drawing_enabled back to it.
C32_LockRestored ==
    [][/\ (~exclusion_mode /\ exclusion_mode')
            => drawing_enabled_before_exclusion' = BoolName(drawing_enabled)
       /\ (exclusion_mode /\ exclusion_mode')
            => drawing_enabled_before_exclusion' = drawing_enabled_before_exclusion
       /\ (exclusion_mode /\ ~exclusion_mode' /\ ev'.op = "mouse_drag")
            => drawing_enabled' = (drawing_enabled_before_exclusion = "True")]_vars

\* C33: a failed image load (the file does not decode) changes nothing: the
\* current image, the reference designation (path and size) and the cached
\* per-image results are what they were before the attempt, so the reference
\* image, once designated, is an image that was loaded successfully.
C33_FailedLoadChangesNothing ==
    [][(ev'.op = "load_image" /\ ~Decodes(ev'.arg.path))
          => /\ current_image_path' = current_image_path
             /\ reference_image_path' = reference_image_path
             /\ reference_image_size' = reference_image_size
             /\ image_states' = image_states]_vars

\* C34: a rejected request leaves the model unchanged: a grid import whose
\* document holds no valid box, and an apply-indexing request made without a
\* base unit, leave the unit rectangles, the exclusion list and the reference
\* centroid map exactly as they were.
C34_RejectedRequestChangesNothing ==
    [][(\/ ev'.op = "import_grid" /\ ImportBoxes(ev'.arg.doc.boxes, <<>>) = <<>>
        \/ ev'.op = "apply_indexing" /\ ~RectTruthy(fixed_img_rect))
          => /\ grid_rects' = grid_rects
             /\ exclusions' = exclusions
             /\ exclusion_ref_centroids' = exclusion_ref_centroids]_vars

(***************************************************************************)
(* The results cache across a change of the grid: C35 (checked under       *)
(* SpecCache). The user has dialled in a minimum defect area, the timer it  *)
(* started has fired, image A was loaded and a grid imported; from then on *)
(* the detection parameters, the segmentation parameters and the exclusion *)
(* list stay as they are, so a defect mask can only be out of date because *)
(* its unit moved.                                                         *)
(***************************************************************************)
\* a version-2 document of two units one pixel wide, without exclusions
DocColumns ==
    [kind |-> "dict",
     boxes |-> <<Box(0, 0, 0, 1, 2), Box(1, 1, 0, 1, 2)>>,
     meta |-> [has |-> TRUE, params |-> GridParams(2, 1, 1, 1, 0, 0, 0, 0),
               base_unit |-> Rect(0, 0, 1, 2)],
     exclusions |-> <<>>,
     align |-> FALSE,
     ref_centroids |-> {}]

CacheDocs == {DocV2, DocColumns}

\* the fresh window after the user set defect_min_area and defect_mask_erode
\* and the autoupdate timer fired
WithDefectParams(min_area, erode_px) ==
    LET SetMinArea(s) ==
            IF s.defect_min_area = min_area THEN s
            ELSE ScheduleDefectAutoupdate([s EXCEPT !.defect_min_area = min_area])
        SetMaskErode(s) ==
            IF s.defect_mask_erode = erode_px THEN s
            ELSE ScheduleDefectAutoupdate([s EXCEPT !.defect_mask_erode = erode_px])
        Fire(s) ==
            IF s.defect_autoupdate_timer = 0 THEN s
            ELSE AutoUpdateDefectSelectedUnit([s EXCEPT !.defect_autoupdate_timer = @ - 1])
    IN  Fire(SetMaskErode(SetMinArea(InitState)))

InitCache ==
    \E min_area \in MinAreaDomain, erode_px \in MaskErodeDomain, doc \in CacheDocs :
        /\ StartsAs(ImportGrid(LoadImage(Begin(WithDefectParams(min_area, erode_px),
                                               "load_image", [path |-> "A"]),
                                         "A"),
                               doc))
        /\ steps = 0
        /\ fn_in = NoCall
        /\ fn_out = NoCall

NextCache ==
    \/ DoLoadImage
    \/ DoSetGridParam
    \/ DoInspectionToggled

SpecCache == InitCache /\ [][NextCache]_vars

\* C35: cached results never outlive the grid they were computed for: every
\* defect mask attached to a unit of the displayed grid is the mask the detector
\* yields for that unit's current rectangle (with the image, the unit's
\* segmentation mask and the detection parameters as they are), also after the
\* grid was regenerated and the image was switched.
C35_MasksMatchGrid ==
    \A i \in 1 .. Len(thumb_list) :
        (thumb_list[i].def.has /\ i <= Len(grid_rects) /\ thumb_list[i].seg.has)
            => thumb_list[i].def =
                  DetectDefectsOnPix(current_image_path, grid_rects[i].r, thumb_list[i].seg,
                                     defect_min_area, defect_mask_erode, defect_method).mask

(***************************************************************************)
(* The inspection-mode state machine: C36, C37 (checked under SpecInspect).*)
(* The window starts as for the results cache: detection parameters        *)
(* dialled in, image A loaded, a grid imported.                            *)
(***************************************************************************)
OverlayModes == {"None", "Segmentation", "Defect", "Both"}

DefectMethods == {"threshold", "canny"}

InitInspect ==
    \E min_area \in MinAreaDomain, erode_px \in MaskErodeDomain, doc \in CacheDocs :
        /\ StartsAs(ImportGrid(LoadImage(Begin(WithDefectParams(min_area, erode_px),
                                               "load_image", [path |-> "A"]),
                                         "A"),
                               doc))
        /\ steps = 0
        /\ fn_in = NoCall
        /\ fn_out = NoCall

\* the user picks another entry of the overlay combo box
DoOverlayModeChanged ==
    \E text \in OverlayModes :
        /\ Live
        /\ text # overlay_mode
        /\ Commit(SetOverlayMode(Begin(State, "overlay_mode", [text |-> text]), text))

\* the user picks the other entry of the method combo box: no slot is connected
DoSetDefectMethod ==
    \E method \in DefectMethods :
        /\ Live
        /\ method # defect_method
        /\ Commit([Begin(State, "set_method", [method |-> method])
                      EXCEPT !.defect_method = method])

\* test_btn; defect_unit_spin holds a value in its range 0 .. max(0, count - 1)
DoTestDefectDetection ==
    \E spin \in 0 .. Max2(0, Len(thumb_list) - 1) :
        /\ Live
        /\ Commit(TestDefectDetection(Begin(State, "test_defect", [spin |-> spin]), spin))

\* test_all_btn
DoTestDefectDetectionAll ==
    /\ Live
    /\ Commit(TestDefectDetectionAll(Begin(State, "test_defect_all", [none |-> TRUE])))

NextInspect ==
    \/ DoLoadImage
    \/ DoCellClick
    \/ DoRunSegmentation
    \/ DoInspectionToggled
    \/ DoSetDefectParam
    \/ DoDefectAutoupdateTimer
    \/ DoSetDefectMethod
    \/ DoOverlayModeChanged
    \/ DoTestDefectDetection
    \/ DoTestDefectDetectionAll

SpecInspect == InitInspect /\ [][NextInspect]_vars

\* C36: inspection mode follows an explicit state machine: it is entered only
\* by a handler that completed an inspection run, and while it is active a
\* change of a detection parameter (min_area, erode_px, method), a change of the
\* overlay mode, a single-unit or all-units defect test, and toggling
\* inspection off each leave inspection mode and empty the inspection results.
C36_InspectionStateMachine ==
    [][/\ (~inspection_mode /\ inspection_mode') => ev'.insp = "done"
       /\ (/\ inspection_mode
           /\ \/ ev'.op \in {"set_min_area", "set_mask_erode", "set_method", "overlay_mode",
                             "test_defect", "test_defect_all"}
              \/ ev'.op = "inspection_toggled" /\ ~ev'.arg.checked)
            => ~inspection_mode' /\ inspection_results' = {}]_vars

\* C37: in every reachable state, inspection mode being active implies that the
\* Run Inspection toggle is checked: no sequence of toggles, parameter changes,
\* defect tests, overlay-mode changes and image switches leaves the canvas
\* showing verdicts while the toggle is off.
C37_InspectionImpliesToggle == inspection_mode => run_insp_btn

\* inspection went on across a switch to image B, with the toggle still checked
C37_Witness ==
    /\ ev.op = "load_image"
    /\ current_image_path = "B"
    /\ ev.insp = "done"
    /\ inspection_mode
    /\ run_insp_btn

====
